---- MODULE Spec2Model ----
(***************************************************************************)
(* Model of the CloudFormation CLI hooks extension: the target filter      *)
(* matcher (_matches_filters) and the target handler report builder        *)
(* (_build_target_handlers_string) of src/hook_extension/describe_hook.py, *)
(* and the sub commands describe, enable-lambda-function-invoker,          *)
(* configure and set-default-version with the control plane they call,     *)
(* and the extension classes of src/hooks_extension, which keep their      *)
(* client in a class attribute, under two invocations that interleave.     *)
(*                                                                         *)
(* A Python str is a sequence of one-character strings when it is matched  *)
(* character by character (target names, glob patterns), and a sequence of *)
(* text fragments when it is only concatenated (the report).  A Python     *)
(* dict is a function whose DOMAIN is the set of keys that are present.    *)
(***************************************************************************)
EXTENDS Integers, Sequences, FiniteSets, TLC

VARIABLES
    pc,              \* position of the running call
    target_handler,  \* _matches_filters: the candidate dict
    filters,         \* _matches_filters: the target filters dict
    matched,         \* _matches_filters: what the call returned or raised
    handlers,        \* report builder: schema_json["handlers"], in iteration order
    hook_configuration_data,  \* report builder: the hook configuration dict
    visited,         \* report builder: number of handlers the loop has finished
    compiled_target_handlers_string,  \* report builder: the text built so far
    resolve_calls,   \* the arguments of the resolve_type_names calls made, in order
    total_target_names,  \* per finished handler: the resolver's list and the retained list
    report,          \* report builder: the string returned
    raised,          \* report builder: the exception that ended the call
    first_call,      \* report builder: the arguments and the result of the call before
    command,         \* the sub command that runs
    args,            \* its argparse Namespace: an argument that is None is not in the DOMAIN
    environ,         \* os.environ
    account,         \* what the control plane holds for the hook type
    api_calls,       \* the control-plane requests made, in order
    locals,          \* the local variables the command has assigned
    stdout,          \* what the command has printed, in order
    prompts,         \* number of times the command has asked on the terminal
    outcome,         \* the exception that ended the command
    cfn_client,      \* extension classes: the class attribute _cfn_client of each class
    invocations,     \* extension classes: the invocations that run, each with its position
    client_calls     \* extension classes: the calls made, each with the client that made it

matcher_vars == <<target_handler, filters, matched>>
report_vars == <<handlers, hook_configuration_data, visited, compiled_target_handlers_string,
                 resolve_calls, total_target_names, report, raised, first_call>>

command_vars == <<command, args, environ, account, api_calls, locals, stdout, prompts, outcome>>

extension_vars == <<cfn_client, invocations, client_calls>>

vars == <<pc, matcher_vars, report_vars, command_vars, extension_vars>>

-----------------------------------------------------------------------------
(* Bounds of the model.                                                    *)

\* longest enumerated candidate target name
MaxNameLen == 2
\* longest enumerated name pattern
MaxPatLen == 3
\* longest enumerated `Targets` list
MaxTargets == 2
\* most handlers in an enumerated schema
MaxHandlers == 2
\* longest list the resolver returns
MaxResolved == 7

-----------------------------------------------------------------------------
(* Strings.                                                                *)

NameChars == {"a", "b"}
PatChars == {"a", "b", "*", "?", "[", "]"}

SeqsUpTo(S, n) == UNION {[1..k -> S] : k \in 0..n}

Chars(s) == {s[i] : i \in 1..Len(s)}

\* names and patterns of the repository's tests
N_DynamoDBTable == <<"A", "W", "S", ":", ":", "D", "y", "n", "a", "m", "o", "D", "B", ":", ":", "T", "a", "b", "l", "e">>
N_GlobalTable2 == <<"A", "W", "S", ":", ":", "D", "y", "n", "a", "m", "o", "D", "B", ":", ":", "G", "l", "o", "b", "a", "l", "T", "a", "b", "l", "e", "2">>
N_Alarm == <<"A", "W", "S", ":", ":", "C", "l", "o", "u", "d", "W", "a", "t", "c", "h", ":", ":", "A", "l", "a", "r", "m">>
P_AnyTable == <<"A", "W", "S", ":", ":", "*", ":", ":", "T", "a", "b", "l", "e">>
P_Alar == <<"A", "W", "S", ":", ":", "C", "l", "o", "u", "d", "W", "a", "t", "c", "h", ":", ":", "A", "l", "a", "r", "?">>
P_NotA == <<"[", "!", "a", "]">>

-----------------------------------------------------------------------------
(* rpdk.core.type_name_resolver.contains_wildcard, as describe_hook.py     *)
(* calls it: a pattern is a wildcard pattern when it holds `*` or `?`.     *)

contains_wildcard(pattern) == "*" \in Chars(pattern) \/ "?" \in Chars(pattern)

-----------------------------------------------------------------------------
(* fnmatch.fnmatch(name, pat), as describe_hook.py calls it.  Both strings *)
(* go through os.path.normcase (the identity on POSIX), the pattern is     *)
(* translated to a regular expression anchored at both ends, and the name  *)
(* is matched against it: `*` is `.*`, `?` is `.`, `[seq]` is a character  *)
(* class (`[!seq]` its complement, a `]` right after the opening is a      *)
(* member), a `[` that is never closed is a literal, and every other       *)
(* character stands for itself.  Patterns here hold no `-`, `^` or `\`.    *)

normcase(s) == s

\* fnmatch.translate: the index of the `]` closing the class opened at pat[1], or 0
RECURSIVE ScanClose(_, _)
ScanClose(pat, j) ==
    IF j > Len(pat) THEN 0
    ELSE IF pat[j] = "]" THEN j
    ELSE ScanClose(pat, j + 1)

ClassClose(pat) ==
    LET j1 == IF 2 <= Len(pat) /\ pat[2] = "!" THEN 3 ELSE 2
        j2 == IF j1 <= Len(pat) /\ pat[j1] = "]" THEN j1 + 1 ELSE j1
    IN  ScanClose(pat, j2)

\* whether character c is in the class whose text (between the brackets) is stuff
InClass(c, stuff) ==
    IF stuff[1] = "!"
    THEN c \notin Chars(SubSeq(stuff, 2, Len(stuff)))
    ELSE c \in Chars(stuff)

RECURSIVE GlobMatch(_, _)
GlobMatch(name, pat) ==
    IF pat = <<>> THEN name = <<>>
    ELSE IF pat[1] = "*"
         THEN \/ GlobMatch(name, Tail(pat))
              \/ name # <<>> /\ GlobMatch(Tail(name), pat)
    ELSE IF name = <<>> THEN FALSE
    ELSE IF pat[1] = "?" THEN GlobMatch(Tail(name), Tail(pat))
    ELSE IF pat[1] = "[" /\ ClassClose(pat) # 0
         THEN LET j == ClassClose(pat)
              IN  /\ InClass(name[1], SubSeq(pat, 2, j - 1))
                  /\ GlobMatch(Tail(name), SubSeq(pat, j + 1, Len(pat)))
    ELSE name[1] = pat[1] /\ GlobMatch(Tail(name), Tail(pat))

\* a bug the claims on glob matching must notice: the pattern need only match a prefix
RECURSIVE PrefixMatch(_, _)
PrefixMatch(name, pat) ==
    IF pat = <<>> THEN TRUE
    ELSE IF pat[1] = "*"
         THEN \/ PrefixMatch(name, Tail(pat))
              \/ name # <<>> /\ PrefixMatch(Tail(name), pat)
    ELSE IF name = <<>> THEN FALSE
    ELSE IF pat[1] = "?" THEN PrefixMatch(Tail(name), Tail(pat))
    ELSE name[1] = pat[1] /\ PrefixMatch(Tail(name), Tail(pat))

fnmatch_prefix(name, pat) == PrefixMatch(normcase(name), normcase(pat))

fnmatch(name, pat) == GlobMatch(normcase(name), normcase(pat))

-----------------------------------------------------------------------------
(* Outcomes of a call: a returned value, or a raised exception.            *)

Returned(v) == [raised |-> "None", value |-> v]
Raised(e) == [raised |-> e, value |-> FALSE]

-----------------------------------------------------------------------------
(* _matches_filters                                                        *)

\* a bug: the names of `Targets` entries are always compared with ==
TargetNameEquals(name, pattern) == name = pattern

\* lines 112-115: glob matching for a wildcard pattern, equality otherwise
TargetNameMatches(name, pattern) ==
    IF contains_wildcard(pattern)
    THEN fnmatch(name, pattern)
    ELSE name = pattern

TargetKeys == {"TargetName", "Action", "InvocationPoint"}

\* lines 111-120: the loop over filters["Targets"], from entry i on.  Reading a
\* key the entry lacks raises KeyError; the first matching entry returns True.
RECURSIVE TargetsLoop(_, _, _)
TargetsLoop(handler, targets, i) ==
    IF i > Len(targets) THEN Returned(FALSE)
    ELSE LET target_filter == targets[i] IN
         IF ~(TargetKeys \subseteq DOMAIN target_filter) THEN Raised("KeyError")
         ELSE LET matches_target_name ==
                      TargetNameMatches(handler.TargetName, target_filter.TargetName)
                  matches_action == handler.Action = target_filter.Action
                  matches_invocation_point ==
                      handler.InvocationPoint = target_filter.InvocationPoint
              IN  IF matches_target_name /\ matches_action /\ matches_invocation_point
                  THEN Returned(TRUE)
                  ELSE TargetsLoop(handler, targets, i + 1)

\* a bug: an empty `Targets` list falls through to "no constraint"
MatchesTargetsEmptyTrue(handler, targets) ==
    IF targets = <<>> THEN Returned(TRUE) ELSE TargetsLoop(handler, targets, 1)

MatchesTargets(handler, targets) == TargetsLoop(handler, targets, 1)

\* a bug: a key that is absent rejects every candidate
MatchesTargetNamesAbsentFalse(handler, fs) ==
    /\ "TargetNames" \in DOMAIN fs
    /\ \E k \in 1..Len(fs.TargetNames) : fnmatch(handler.TargetName, fs.TargetNames[k])

\* lines 122-126: any(map(fnmatch ...)) over filters["TargetNames"]
MatchesTargetNames(handler, fs) ==
    IF "TargetNames" \in DOMAIN fs
    THEN \E k \in 1..Len(fs.TargetNames) : fnmatch(handler.TargetName, fs.TargetNames[k])
    ELSE TRUE

\* a bug: a filter without `Actions` rejects every candidate
MatchesActionsAbsentFalse(handler, fs) ==
    /\ "Actions" \in DOMAIN fs
    /\ \E k \in 1..Len(fs.Actions) : handler.Action = fs.Actions[k]

\* lines 128-131
MatchesActions(handler, fs) ==
    IF "Actions" \in DOMAIN fs
    THEN \E k \in 1..Len(fs.Actions) : handler.Action = fs.Actions[k]
    ELSE TRUE

\* lines 133-136
MatchesInvocationPoints(handler, fs) ==
    IF "InvocationPoints" \in DOMAIN fs
    THEN \E k \in 1..Len(fs.InvocationPoints) : handler.InvocationPoint = fs.InvocationPoints[k]
    ELSE TRUE

\* a bug: the three dimensions are combined with `or`
MatchesAnyDimension(handler, fs) ==
    \/ MatchesTargetNames(handler, fs)
    \/ MatchesActions(handler, fs)
    \/ MatchesInvocationPoints(handler, fs)

\* lines 122-138: the filter without `Targets`
MatchesDimensions(handler, fs) ==
    /\ MatchesTargetNames(handler, fs)
    /\ MatchesActions(handler, fs)
    /\ MatchesInvocationPoints(handler, fs)

\* a bug: a filter with `Targets` is also held against `Actions`
matches_filters_mixed(handler, fs) ==
    IF "Targets" \in DOMAIN fs
    THEN LET r == MatchesTargets(handler, fs.Targets)
         IN  IF r.raised = "None" THEN Returned(r.value /\ MatchesActions(handler, fs)) ELSE r
    ELSE Returned(MatchesDimensions(handler, fs))

\* lines 97-138
matches_filters(handler, fs) ==
    IF "Targets" \in DOMAIN fs
    THEN MatchesTargets(handler, fs.Targets)
    ELSE Returned(MatchesDimensions(handler, fs))

-----------------------------------------------------------------------------
(* Inputs of _matches_filters.                                             *)

ActionNames == {"CREATE", "UPDATE", "DELETE"}
InvocationPointNames == {"PRE_PROVISION", "POST_PROVISION"}

\* a dict without keys
EmptyDict == [k \in {} |-> <<>>]

Names == SeqsUpTo(NameChars, MaxNameLen) \ {<<>>}
Pats == SeqsUpTo(PatChars, MaxPatLen)
TestNames == {N_DynamoDBTable, N_GlobalTable2, N_Alarm}
TestPats == {P_AnyTable, P_Alar, P_NotA, N_DynamoDBTable}

\* candidates as _build_target_handlers_string builds them (lines 186-190)
Candidates == [TargetName : Names, Action : ActionNames, InvocationPoint : InvocationPointNames]

SomePats == {<<"a">>, <<"a", "*">>}

\* entries of `Targets`: whole triples, and entries that lack one key
FullEntries == [TargetName : SomePats, Action : {"CREATE", "DELETE"}, InvocationPoint : {"PRE_PROVISION"}]
PartialEntries ==
    { [Action |-> "CREATE", InvocationPoint |-> "PRE_PROVISION"],
      [TargetName |-> <<"a">>, InvocationPoint |-> "PRE_PROVISION"],
      [TargetName |-> <<"a">>, Action |-> "CREATE"] }
TargetsLists == SeqsUpTo(FullEntries \cup PartialEntries, MaxTargets)

Optional(key, values) == {EmptyDict} \cup {key :> v : v \in values}

TargetNamesDicts == Optional("TargetNames", SeqsUpTo(SomePats, 2))
ActionsDicts ==
    Optional("Actions", {<<>>, <<"CREATE">>, <<"CREATE", "UPDATE">>, <<"DELETE">>})
InvocationPointsDicts ==
    Optional("InvocationPoints", {<<>>, <<"PRE_PROVISION">>, <<"PRE_PROVISION", "POST_PROVISION">>})

\* filters without `Targets`: every combination of the three optional keys
DimensionFilters ==
    {tn @@ ac @@ ip : tn \in TargetNamesDicts, ac \in ActionsDicts, ip \in InvocationPointsDicts}

\* what may stand beside `Targets` in the filters of the model's runs
BesideTargets ==
    { EmptyDict,
      "TargetNames" :> << <<"b">> >>,
      ("Actions" :> <<"UPDATE">>) @@ ("InvocationPoints" :> <<"PRE_PROVISION">>),
      ("TargetNames" :> << <<"a", "*">> >>) @@ ("Actions" :> <<"CREATE", "UPDATE">>)
          @@ ("InvocationPoints" :> <<"PRE_PROVISION", "POST_PROVISION">>) }

TargetsFilters == {("Targets" :> ts) @@ other : ts \in TargetsLists, other \in BesideTargets}

\* filters with one name pattern, in either shape
PatternCandidates ==
    [TargetName : Names \cup TestNames, Action : {"CREATE"}, InvocationPoint : {"PRE_PROVISION"}]
PatternFilters ==
    {"TargetNames" :> <<p>> : p \in Pats \cup TestPats}
    \cup {"Targets" :> << [TargetName |-> p, Action |-> "CREATE", InvocationPoint |-> "PRE_PROVISION"] >> :
             p \in Pats \cup TestPats}

NotCalled == [raised |-> "NotCalled", value |-> FALSE]

-----------------------------------------------------------------------------
(* The matcher, called once on a candidate and a filter.                   *)

\* the report builder's variables while no report is built
\* the hook type in the account before a command has acted on it
NoAccount == [activated |-> FALSE, configuration |-> <<>>, default_version |-> <<>>]

\* no sub command runs
\* the class attribute before any invocation (lines 23 and 21 of the two classes)
ExtensionClasses == {"ConfigureHookExtension", "SetDefaultHookVersionExtension"}
NoClient == [built_by |-> 0, region |-> "none"]

\* no invocation of an extension class runs
ExtensionIdle ==
    /\ cfn_client = [c \in ExtensionClasses |-> NoClient]
    /\ invocations = <<>>
    /\ client_calls = <<>>

CommandIdle ==
    /\ command = "none"
    /\ args = EmptyDict
    /\ environ = EmptyDict
    /\ account = NoAccount
    /\ api_calls = <<>>
    /\ locals = EmptyDict
    /\ stdout = <<>>
    /\ prompts = 0
    /\ outcome = "None"

\* what is known of the first call of the builder while it runs: its arguments
FirstCall(schema_handlers, configuration) ==
    [handlers |-> schema_handlers, hook_configuration_data |-> configuration,
     total_target_names |-> <<>>, report |-> <<>>]

ReportIdle ==
    /\ handlers = <<>>
    /\ hook_configuration_data = EmptyDict
    /\ visited = 0
    /\ compiled_target_handlers_string = <<>>
    /\ resolve_calls = <<>>
    /\ total_target_names = <<>>
    /\ report = <<>>
    /\ raised = "None"
    /\ first_call = FirstCall(<<>>, EmptyDict)

InitMatcher ==
    /\ pc = "call"
    /\ ReportIdle
    /\ CommandIdle
    /\ ExtensionIdle
    /\ matched = NotCalled
    /\ \/ target_handler \in Candidates /\ filters \in DimensionFilters \cup TargetsFilters
       \/ target_handler \in PatternCandidates /\ filters \in PatternFilters

CallMatchesFilters ==
    /\ pc = "call"
    /\ matched' = matches_filters(target_handler, filters)
    /\ pc' = "done"
    /\ UNCHANGED <<target_handler, filters, report_vars, command_vars, extension_vars>>

NextMatcher == CallMatchesFilters

SpecMatcher == InitMatcher /\ [][NextMatcher]_vars

-----------------------------------------------------------------------------
(* Claims on _matches_filters, checked under SpecMatcher.                  *)

Done == pc = "done"
HasTargets == "Targets" \in DOMAIN filters
WellFormedTargets ==
    HasTargets /\ \A k \in 1..Len(filters.Targets) : TargetKeys \subseteq DOMAIN filters.Targets[k]
IsWildcardChar(c) == c = "*" \/ c = "?"
HasWildcardChar(p) == \E i \in 1..Len(p) : IsWildcardChar(p[i])

\* entry e of `Targets` names the candidate c
EntryNames(e, c) ==
    /\ e.Action = c.Action
    /\ e.InvocationPoint = c.InvocationPoint
    /\ IF HasWildcardChar(e.TargetName)
       THEN fnmatch(c.TargetName, e.TargetName)
       ELSE c.TargetName = e.TargetName

\* C1: with a `Targets` key (a list of whole triples) the matcher returns true
\* exactly when some entry has the candidate's Action and InvocationPoint and a
\* TargetName that names the candidate: by glob matching when the entry's name
\* holds `*` or `?`, by string equality otherwise.
C1_TargetsMode ==
    (Done /\ WellFormedTargets) =>
        /\ matched.raised = "None"
        /\ matched.value <=>
               \E k \in 1..Len(filters.Targets) : EntryNames(filters.Targets[k], target_handler)

\* the second of two entries matches by its wildcard, the first does not match
C1_Witness ==
    /\ Done /\ WellFormedTargets
    /\ Len(filters.Targets) = 2
    /\ ~EntryNames(filters.Targets[1], target_handler)
    /\ HasWildcardChar(filters.Targets[2].TargetName)
    /\ filters.Targets[2].TargetName # target_handler.TargetName
    /\ matched = Returned(TRUE)

InList(x, list) == \E k \in 1..Len(list) : x = list[k]

\* C2: without a `Targets` key the matcher returns the conjunction of three
\* conditions: the name glob-matches some pattern of `TargetNames`, the Action
\* is in `Actions`, the InvocationPoint is in `InvocationPoints`, each of them
\* true when its key is absent.
C2_DimensionMode ==
    (Done /\ ~HasTargets) =>
        LET byName == "TargetNames" \notin DOMAIN filters
                      \/ \E k \in 1..Len(filters.TargetNames) :
                             fnmatch(target_handler.TargetName, filters.TargetNames[k])
            byAction == "Actions" \notin DOMAIN filters
                        \/ InList(target_handler.Action, filters.Actions)
            byPoint == "InvocationPoints" \notin DOMAIN filters
                       \/ InList(target_handler.InvocationPoint, filters.InvocationPoints)
        IN  matched = Returned(byName /\ byAction /\ byPoint)

\* the three keys are present, two conditions hold and the third rejects
C2_Witness ==
    /\ Done /\ DOMAIN filters = {"TargetNames", "Actions", "InvocationPoints"}
    /\ \E k \in 1..Len(filters.TargetNames) :
           fnmatch(target_handler.TargetName, filters.TargetNames[k])
    /\ InList(target_handler.InvocationPoint, filters.InvocationPoints)
    /\ ~InList(target_handler.Action, filters.Actions)
    /\ matched = Returned(FALSE)

\* the three keys, each absent, empty, or holding one value
OtherDimensions ==
    { tn @@ ac @@ ip :
        tn \in Optional("TargetNames", {<<>>, << <<"a", "*">> >>}),
        ac \in Optional("Actions", {<<>>, <<"CREATE">>}),
        ip \in Optional("InvocationPoints", {<<>>, <<"PRE_PROVISION">>}) }

\* C3: with a `Targets` key the result does not depend on `TargetNames`,
\* `Actions` or `InvocationPoints`: every filter with the same `Targets` list
\* and any other presence or content of those keys gives the same result.
C3_TargetsAlone ==
    (Done /\ HasTargets) =>
        \A other \in OtherDimensions :
            matches_filters(target_handler, ("Targets" :> filters.Targets) @@ other) = matched

\* a `Targets` entry matches although the `Actions` beside it exclude the candidate
C3_Witness ==
    /\ Done /\ HasTargets
    /\ "Actions" \in DOMAIN filters
    /\ ~InList(target_handler.Action, filters.Actions)
    /\ matched = Returned(TRUE)

NoFilterKeys ==
    DOMAIN filters \cap {"Targets", "TargetNames", "Actions", "InvocationPoints"} = {}

\* C4 as claimed: a filter without the four keys matches every candidate, and
\* no filter makes the matcher raise an error.
C4_AsClaimed ==
    Done => /\ matched.raised = "None"
            /\ NoFilterKeys => matched = Returned(TRUE)

\* entry k of `Targets` lacks a key and no entry before it names the candidate
RaisingEntry(k) ==
    /\ ~(TargetKeys \subseteq DOMAIN filters.Targets[k])
    /\ \A j \in 1..(k - 1) :
           /\ TargetKeys \subseteq DOMAIN filters.Targets[j]
           /\ ~EntryNames(filters.Targets[j], target_handler)

\* C4, amended: a filter without the four keys matches every candidate; the
\* matcher raises (KeyError) exactly when it reaches a `Targets` entry that
\* lacks TargetName, Action or InvocationPoint, so no filter whose `Targets`
\* entries are whole triples, and no filter without `Targets`, raises.
C4_NoErrorOnTriples ==
    Done => /\ NoFilterKeys => matched = Returned(TRUE)
            /\ matched.raised \in {"None", "KeyError"}
            /\ matched.raised = "KeyError" <=>
                   (HasTargets /\ \E k \in 1..Len(filters.Targets) : RaisingEntry(k))
            /\ (~HasTargets \/ WellFormedTargets) => matched.raised = "None"

\* the empty dict matched, for a candidate that no pattern of the model names
C4_Witness ==
    /\ Done /\ filters = EmptyDict
    /\ target_handler.Action = "DELETE"
    /\ target_handler.InvocationPoint = "POST_PROVISION"
    /\ matched = Returned(TRUE)

\* C5: an empty `Targets` list matches no candidate, whatever the other keys.
C5_EmptyTargets ==
    (Done /\ HasTargets /\ filters.Targets = <<>>) => matched = Returned(FALSE)

\* the keys beside the empty `Targets` list would all accept the candidate
C5_Witness ==
    /\ Done /\ HasTargets /\ filters.Targets = <<>>
    /\ DOMAIN filters = {"Targets", "TargetNames", "Actions", "InvocationPoints"}
    /\ MatchesDimensions(target_handler, filters)
    /\ matched = Returned(FALSE)

\* the name pattern of a filter that holds exactly one, applied to the
\* candidate's name alone (a `Targets` entry with the candidate's Action and
\* InvocationPoint, or a one-element `TargetNames`); <<"none">> otherwise
OnlyPattern ==
    IF DOMAIN filters = {"TargetNames"} /\ Len(filters.TargetNames) = 1
    THEN <<"one", filters.TargetNames[1]>>
    ELSE IF /\ DOMAIN filters = {"Targets"} /\ Len(filters.Targets) = 1
            /\ WellFormedTargets
            /\ filters.Targets[1].Action = target_handler.Action
            /\ filters.Targets[1].InvocationPoint = target_handler.InvocationPoint
    THEN <<"one", filters.Targets[1].TargetName>>
    ELSE <<"none", <<>> >>

\* the number of name characters the first i pattern characters use up when
\* the `*` at pattern position j stands for a run of run[j] characters
RECURSIVE UsedUp(_, _, _)
UsedUp(run, pat, i) ==
    IF i = 0 THEN 0
    ELSE UsedUp(run, pat, i - 1) + (IF pat[i] = "*" THEN run[i] ELSE 1)

\* shell-glob matching of a whole name: each `*` stands for some run of
\* characters, `?` for one character, another character for itself, and the
\* pattern uses up the whole name.
GlobDenotes(name, pat) ==
    LET stars == {i \in 1..Len(pat) : pat[i] = "*"} IN
    \E run \in [stars -> 0..Len(name)] :
        /\ UsedUp(run, pat, Len(pat)) = Len(name)
        /\ \A i \in (1..Len(pat)) \ stars :
               pat[i] = "?" \/ name[UsedUp(run, pat, i)] = pat[i]

\* C6: name patterns are shell globs over the whole name: `*` matches any run
\* of characters, `?` exactly one, and the pattern must match the entire name;
\* AWS::*::Table matches AWS::DynamoDB::Table and not
\* AWS::DynamoDB::GlobalTable2, AWS::CloudWatch::Alar? matches
\* AWS::CloudWatch::Alarm.
C6_GlobSemantics ==
    (Done /\ OnlyPattern[1] = "one") =>
        LET p == OnlyPattern[2]
            n == target_handler.TargetName
        IN  /\ (p \in Pats /\ "[" \notin Chars(p)) => matched = Returned(GlobDenotes(n, p))
            /\ (p = P_AnyTable /\ n = N_DynamoDBTable) => matched = Returned(TRUE)
            /\ (p = P_AnyTable /\ n = N_GlobalTable2) => matched = Returned(FALSE)
            /\ (p = P_AnyTable /\ n = N_Alarm) => matched = Returned(FALSE)
            /\ (p = N_DynamoDBTable /\ n = N_GlobalTable2) => matched = Returned(FALSE)
            /\ (p = P_Alar /\ n = N_Alarm) => matched = Returned(TRUE)
            /\ (p = P_Alar /\ n = N_DynamoDBTable) => matched = Returned(FALSE)

\* a pattern with a leading `*` rejected a name that holds a match but does not end with it
C6_Witness ==
    /\ Done /\ OnlyPattern = <<"one", <<"*", "a">> >>
    /\ target_handler.TargetName = <<"a", "b">>
    /\ matched = Returned(FALSE)

-----------------------------------------------------------------------------
(* _build_target_handlers_string                                           *)

\* the text of a name
RECURSIVE Str(_)
Str(s) == IF s = <<>> THEN "" ELSE s[1] \o Str(Tail(s))

\* sep.join(names), as text fragments
RECURSIVE Join(_, _)
Join(sep, names) ==
    IF names = <<>> THEN <<>>
    ELSE IF Len(names) = 1 THEN <<Str(names[1])>>
    ELSE <<Str(names[1]), sep>> \o Join(sep, Tail(names))

NoTargetsSentinel == "Based on the schema and target filters, this hook has no targets.\n"
TargetsHeader == "This Hook is configured to target:"

\* a bug: every handler is taken for a create handler
handler_names_to_actions_create ==
    [preCreate |-> <<"CREATE", "PRE_PROVISION">>,
     preUpdate |-> <<"CREATE", "PRE_PROVISION">>,
     preDelete |-> <<"CREATE", "PRE_PROVISION">>]

\* lines 169-173
handler_names_to_actions ==
    [preCreate |-> <<"CREATE", "PRE_PROVISION">>,
     preUpdate |-> <<"UPDATE", "PRE_PROVISION">>,
     preDelete |-> <<"DELETE", "PRE_PROVISION">>]

\* lines 183-193: list(filter(lambda targetName: _matches_filters(...), names)),
\* from element i on; an error raised by the matcher ends it
RECURSIVE FilterNames(_, _, _, _, _)
FilterNames(names, action, invocation_point, fs, i) ==
    IF i > Len(names) THEN [raised |-> "None", kept |-> <<>>]
    ELSE LET m == matches_filters([TargetName |-> names[i], Action |-> action,
                                   InvocationPoint |-> invocation_point], fs)
         IN  IF m.raised # "None" THEN [raised |-> m.raised, kept |-> <<>>]
             ELSE LET rest == FilterNames(names, action, invocation_point, fs, i + 1)
                  IN  IF rest.raised # "None" THEN rest
                      ELSE [raised |-> "None",
                            kept |-> IF m.value THEN <<names[i]>> \o rest.kept ELSE rest.kept]

\* names without the repetitions of a name, first occurrences kept
RECURSIVE Distinct(_)
Distinct(names) ==
    IF names = <<>> THEN <<>>
    ELSE LET front == Distinct(SubSeq(names, 1, Len(names) - 1))
             last == names[Len(names)]
         IN  IF \E i \in 1..Len(front) : front[i] = last THEN front ELSE Append(front, last)

\* a bug: the kept names are made unique
RetainedDistinct(names, handler, configuration) ==
    IF "TargetFilters" \in DOMAIN configuration
    THEN LET r == FilterNames(names, handler_names_to_actions[handler][1],
                              handler_names_to_actions[handler][2], configuration.TargetFilters, 1)
         IN  [raised |-> r.raised, kept |-> Distinct(r.kept)]
    ELSE [raised |-> "None", kept |-> Distinct(names)]

\* lines 182-193: the names kept for a handler
Retained(names, handler, configuration) ==
    IF "TargetFilters" \in DOMAIN configuration
    THEN FilterNames(names, handler_names_to_actions[handler][1],
                     handler_names_to_actions[handler][2], configuration.TargetFilters, 1)
    ELSE [raised |-> "None", kept |-> names]

\* line 199: the longest list that is printed name by name
ListLimit == 5

\* a bug: a list of ListLimit names is counted already
HandlerBlockBelowLimit(handler, names) ==
    <<"\n\t", handler, ":\n\t\t">>
    \o (IF Len(names) < ListLimit
        THEN Join("\n\t\t", names) \o <<"\n">>
        ELSE <<ToString(Len(names)), " resources\n">>)

\* lines 197-202: the text added for a handler that keeps some names
HandlerBlock(handler, names) ==
    <<"\n\t", handler, ":\n\t\t">>
    \o (IF Len(names) <= ListLimit
        THEN Join("\n\t\t", names) \o <<"\n">>
        ELSE <<ToString(Len(names)), " resources\n">>)

-----------------------------------------------------------------------------
(* Inputs of the report builder.                                           *)

HandlerNames == {"preCreate", "preUpdate", "preDelete", "postDelete"}

\* handler_config["targetNames"] of each handler of the schema
SchemaTargetNames ==
    [preCreate |-> << <<"a", "*">> >>,
     preUpdate |-> << <<"b">> >>,
     preDelete |-> << <<"a">>, <<"b">> >>,
     postDelete |-> << <<"*">> >>]

SchemaEntry(h) == [name |-> h, targetNames |-> SchemaTargetNames[h]]

\* the handlers of a schema: distinct names (they are the keys of a JSON object)
Schemas ==
    { [i \in 1..Len(hs) |-> SchemaEntry(hs[i])] :
        hs \in {x \in SeqsUpTo(HandlerNames, MaxHandlers) :
                   \A i, j \in 1..Len(x) : i # j => x[i] # x[j]} }

LambdaInvokerFilters ==
    ("TargetNames" :> << <<"a", "*">> >>) @@ ("Actions" :> <<"CREATE", "UPDATE">>)
        @@ ("InvocationPoints" :> <<"PRE_PROVISION">>)

ReportFilters ==
    { EmptyDict,
      "TargetNames" :> << <<"a", "*">> >>,
      "Targets" :> << [TargetName |-> <<"a", "*">>, Action |-> "CREATE", InvocationPoint |-> "PRE_PROVISION"],
                      [TargetName |-> <<"b">>, Action |-> "DELETE", InvocationPoint |-> "PRE_PROVISION"] >>,
      LambdaInvokerFilters,
      "Targets" :> << [TargetName |-> <<"b">>, Action |-> "CREATE", InvocationPoint |-> "PRE_PROVISION"],
                      [Action |-> "CREATE", InvocationPoint |-> "PRE_PROVISION"] >> }

Configurations == {EmptyDict} \cup {"TargetFilters" :> f : f \in ReportFilters}

\* what TypeNameResolver.resolve_type_names may return: short lists in any
\* order, and lists around ListLimit names long, with and without a name
\* (the second) that the `a*` filters drop
LongList(k, d) ==
    [i \in 1..k |-> IF d = 1 /\ i = 2 THEN <<"b">>
                    ELSE << <<"a">>, <<"a", "a">>, <<"a", "b">> >>[(i % 3) + 1]]

ResolverOutputs ==
    { <<>>, << <<"a">> >>, << <<"b">> >>, << <<"b">>, <<"a">> >>, << <<"a", "b">>, <<"b">>, <<"a">> >> }
    \cup {LongList(k, d) : k \in (MaxResolved - 3)..MaxResolved, d \in {0, 1}}

MatcherIdle ==
    /\ target_handler = EmptyDict
    /\ filters = EmptyDict
    /\ matched = NotCalled

-----------------------------------------------------------------------------
(* The report builder, one step per iteration of its loop.                 *)

InitReport ==
    /\ pc = "loop"
    /\ MatcherIdle
    /\ CommandIdle
    /\ ExtensionIdle
    /\ handlers \in Schemas
    /\ hook_configuration_data \in Configurations
    /\ visited = 0
    /\ compiled_target_handlers_string = <<>>
    /\ resolve_calls = <<>>
    /\ total_target_names = <<>>
    /\ report = <<>>
    /\ raised = "None"
    /\ first_call = FirstCall(handlers, hook_configuration_data)

\* the builder is running for the second time, on the arguments of the first
SecondCall == first_call.report # <<>>

\* line 181: what resolve_type_names returns; in the second call, the list it
\* returned for the same handler in the first
ResolverReturns ==
    IF SecondCall THEN {first_call.total_target_names[visited + 1].resolved}
    ELSE ResolverOutputs

NextHandler == handlers[visited + 1]

\* lines 175-202 for a handler of the table, the resolver returning a list
VisitHandler ==
    /\ pc = "loop" /\ visited < Len(handlers)
    /\ NextHandler.name \in DOMAIN handler_names_to_actions
    /\ \E resolved \in ResolverReturns :
           LET r == Retained(resolved, NextHandler.name, hook_configuration_data) IN
           /\ resolve_calls' = Append(resolve_calls, NextHandler.targetNames)
           /\ IF r.raised # "None"
              THEN /\ pc' = "raised"
                   /\ raised' = r.raised
                   /\ UNCHANGED <<visited, total_target_names, compiled_target_handlers_string>>
              ELSE /\ visited' = visited + 1
                   /\ total_target_names' =
                          Append(total_target_names,
                                 [handler |-> NextHandler.name, resolved |-> resolved, retained |-> r.kept])
                   /\ compiled_target_handlers_string' =
                          IF r.kept = <<>>
                          THEN compiled_target_handlers_string
                          ELSE compiled_target_handlers_string \o HandlerBlock(NextHandler.name, r.kept)
                   /\ UNCHANGED <<pc, raised>>
    /\ UNCHANGED <<matcher_vars, command_vars, extension_vars, first_call, handlers, hook_configuration_data, report>>

\* a bug: an error of the resolver is caught and the handler is passed over
ResolverRaisesCaught ==
    /\ pc = "loop" /\ visited < Len(handlers)
    /\ ~SecondCall
    /\ NextHandler.name \in DOMAIN handler_names_to_actions
    /\ resolve_calls' = Append(resolve_calls, NextHandler.targetNames)
    /\ visited' = visited + 1
    /\ UNCHANGED <<pc, raised, matcher_vars, command_vars, extension_vars, first_call, handlers, hook_configuration_data,
                   compiled_target_handlers_string, total_target_names, report>>

\* line 181 when resolve_type_names raises: nothing catches it
ResolverRaises ==
    /\ pc = "loop" /\ visited < Len(handlers)
    /\ ~SecondCall
    /\ NextHandler.name \in DOMAIN handler_names_to_actions
    /\ resolve_calls' = Append(resolve_calls, NextHandler.targetNames)
    /\ pc' = "raised"
    /\ raised' = "ResolverError"
    /\ UNCHANGED <<matcher_vars, command_vars, extension_vars, first_call, handlers, hook_configuration_data, visited,
                   compiled_target_handlers_string, total_target_names, report>>

\* a bug: a handler that is not in the table is passed over
UnknownHandlerSkipped ==
    /\ pc = "loop" /\ visited < Len(handlers)
    /\ NextHandler.name \notin DOMAIN handler_names_to_actions
    /\ visited' = visited + 1
    /\ UNCHANGED <<pc, raised, matcher_vars, command_vars, extension_vars, first_call, handlers, hook_configuration_data,
                   compiled_target_handlers_string, resolve_calls, total_target_names, report>>

\* lines 179-180: a handler that is not in the table
UnknownHandler ==
    /\ pc = "loop" /\ visited < Len(handlers)
    /\ NextHandler.name \notin DOMAIN handler_names_to_actions
    /\ pc' = "raised"
    /\ raised' = "InternalError"
    /\ UNCHANGED <<matcher_vars, command_vars, extension_vars, first_call, handlers, hook_configuration_data, visited,
                   compiled_target_handlers_string, resolve_calls, total_target_names, report>>

\* a bug: the header is returned whether or not a handler added text
ReturnReportHeaderAlways ==
    /\ pc = "loop" /\ visited = Len(handlers)
    /\ report' = <<TargetsHeader>> \o compiled_target_handlers_string
    /\ pc' = "returned"
    /\ UNCHANGED <<matcher_vars, command_vars, extension_vars, first_call, handlers, hook_configuration_data, visited,
                   compiled_target_handlers_string, resolve_calls, total_target_names, raised>>

\* lines 203-205
ReturnReport ==
    /\ pc = "loop" /\ visited = Len(handlers)
    /\ report' = IF compiled_target_handlers_string = <<>>
                 THEN <<NoTargetsSentinel>>
                 ELSE <<TargetsHeader>> \o compiled_target_handlers_string
    /\ pc' = "returned"
    /\ UNCHANGED <<matcher_vars, command_vars, extension_vars, first_call, handlers, hook_configuration_data, visited,
                   compiled_target_handlers_string, resolve_calls, total_target_names, raised>>

\* a bug: the text of the call before is still there when the next call starts
CallAgainKeepsText ==
    /\ pc = "returned" /\ ~SecondCall
    /\ first_call' = [first_call EXCEPT !.total_target_names = total_target_names,
                                         !.report = report]
    /\ pc' = "loop"
    /\ visited' = 0
    /\ resolve_calls' = <<>>
    /\ total_target_names' = <<>>
    /\ report' = <<>>
    /\ UNCHANGED <<matcher_vars, command_vars, extension_vars, handlers, hook_configuration_data, raised,
                   compiled_target_handlers_string>>

\* lines 140-167: the builder is called once more with the same arguments;
\* its locals start afresh
CallAgain ==
    /\ pc = "returned" /\ ~SecondCall
    /\ first_call' = [first_call EXCEPT !.total_target_names = total_target_names,
                                         !.report = report]
    /\ pc' = "loop"
    /\ visited' = 0
    /\ compiled_target_handlers_string' = <<>>
    /\ resolve_calls' = <<>>
    /\ total_target_names' = <<>>
    /\ report' = <<>>
    /\ UNCHANGED <<matcher_vars, command_vars, extension_vars, handlers, hook_configuration_data, raised>>

NextReport == VisitHandler \/ ResolverRaises \/ UnknownHandler \/ ReturnReport \/ CallAgain

SpecReport == InitReport /\ [][NextReport]_vars

-----------------------------------------------------------------------------
(* Claims on _build_target_handlers_string, checked under SpecReport.      *)

Recognized == {"preCreate", "preUpdate", "preDelete"}
HasFilters == "TargetFilters" \in DOMAIN hook_configuration_data

\* the candidate the claim gives for name n of handler h
ClaimedCandidate(h, n) ==
    [TargetName |-> n,
     Action |-> CASE h = "preCreate" -> "CREATE"
                  [] h = "preUpdate" -> "UPDATE"
                  [] h = "preDelete" -> "DELETE",
     InvocationPoint |-> "PRE_PROVISION"]

\* the names of list that the configured filters accept for handler h, in order
Accepted(h, list) ==
    LET Test(n) == matches_filters(ClaimedCandidate(h, n), hook_configuration_data.TargetFilters)
                       = Returned(TRUE)
    IN  SelectSeq(list, Test)

\* C7: for each handler the retained names are the resolver's output for that
\* handler restricted to the names n for which _matches_filters of
\* {TargetName: n, Action, InvocationPoint of the handler} and TargetFilters is
\* true, with preCreate -> (CREATE, PRE_PROVISION), preUpdate -> (UPDATE,
\* PRE_PROVISION), preDelete -> (DELETE, PRE_PROVISION); without a
\* TargetFilters key every resolved name is retained.
C7_RetainedNames ==
    \A k \in 1..Len(total_target_names) :
        LET e == total_target_names[k] IN
        /\ e.handler = handlers[k].name
        /\ e.retained = IF HasFilters THEN Accepted(e.handler, e.resolved) ELSE e.resolved

\* a preDelete handler kept the one name that a DELETE entry of `Targets` names
C7_Witness ==
    /\ pc = "returned" /\ HasFilters
    /\ "Targets" \in DOMAIN hook_configuration_data.TargetFilters
    /\ \E k \in 1..Len(total_target_names) :
           /\ total_target_names[k].handler = "preDelete"
           /\ total_target_names[k].resolved = << <<"a", "b">>, <<"b">>, <<"a">> >>
           /\ total_target_names[k].retained = << <<"b">> >>

HasUnknownHandler == \E i \in 1..Len(handlers) : handlers[i].name \notin Recognized
FirstUnknownHandler ==
    CHOOSE i \in 1..Len(handlers) :
        /\ handlers[i].name \notin Recognized
        /\ \A j \in 1..(i - 1) : handlers[j].name \in Recognized

Appears(h) ==
    \E i \in 1..(Len(report) - 2) :
        report[i] = "\n\t" /\ report[i + 1] = h /\ report[i + 2] = ":\n\t\t"

\* C9: in a returned report a handler appears exactly when its retained list
\* is not empty; the report is the sentinel "Based on the schema and target
\* filters, this hook has no targets.\n" exactly when every handler's retained
\* list is empty (a schema without handlers included), and otherwise it begins
\* with "This Hook is configured to target:".
C9_SentinelOrHeader ==
    pc = "returned" =>
        LET nothing == \A k \in 1..Len(total_target_names) : total_target_names[k].retained = <<>>
        IN  /\ Len(total_target_names) = Len(handlers)
            /\ \A k \in 1..Len(total_target_names) :
                   Appears(total_target_names[k].handler) <=> total_target_names[k].retained # <<>>
            /\ report = <<"Based on the schema and target filters, this hook has no targets.\n">>
                   <=> nothing
            /\ ~nothing => report[1] = "This Hook is configured to target:"

\* of two handlers, the one whose resolved names were all filtered out is left out
C9_Witness ==
    /\ pc = "returned" /\ Len(total_target_names) = 2
    /\ total_target_names[1].resolved # <<>>
    /\ total_target_names[1].retained = <<>>
    /\ total_target_names[2].retained # <<>>
    /\ ~Appears(total_target_names[1].handler)
    /\ Appears(total_target_names[2].handler)

\* the names, one per line
Listed(names) ==
    [i \in 1..(2 * Len(names) - 1) |-> IF i % 2 = 1 THEN Str(names[(i + 1) \div 2]) ELSE "\n\t\t"]

\* the block the claim gives for a handler that retained names
ClaimedBlock(h, names) ==
    IF names = <<>> THEN <<>>
    ELSE <<"\n\t", h, ":\n\t\t">>
         \o (IF Len(names) <= 5
             THEN Listed(names) \o <<"\n">>
             ELSE <<ToString(Len(names)), " resources\n">>)

RECURSIVE ClaimedBlocks(_)
ClaimedBlocks(entries) ==
    IF entries = <<>> THEN <<>>
    ELSE ClaimedBlock(entries[1].handler, entries[1].retained) \o ClaimedBlocks(Tail(entries))

\* C10: the block of a handler that retained n names lists the n names one by
\* one when 1 <= n <= 5, and is the single line "<n> resources" when n >= 6,
\* n being the number of names after filtering, not the number resolved.
C10_ListOrCount ==
    /\ compiled_target_handlers_string = ClaimedBlocks(total_target_names)
    /\ pc = "returned" =>
           \/ report = <<"This Hook is configured to target:">> \o ClaimedBlocks(total_target_names)
           \/ ClaimedBlocks(total_target_names) = <<>>

\* six resolved names of which five are kept and listed, then seven resolved
\* names of which six are kept and counted
C10_Witness ==
    /\ pc = "returned" /\ Len(total_target_names) = 2
    /\ Len(total_target_names[1].resolved) = 6
    /\ Len(total_target_names[1].retained) = 5
    /\ Len(total_target_names[2].resolved) = 7
    /\ Len(total_target_names[2].retained) = 6
    /\ Len(report) = 1 + (3 + 9 + 1) + (3 + 2)
    /\ report[Len(report) - 1] = "6"
    /\ report[Len(report)] = " resources\n"

-----------------------------------------------------------------------------
(* The order of the names of a block.                                      *)

\* where the block of handler h starts in text (handler names are distinct)
BlockStart(text, h) ==
    CHOOSE i \in 1..(Len(text) - 1) : text[i] = "\n\t" /\ text[i + 1] = h

HasBlock(text, h) ==
    \E i \in 1..(Len(text) - 1) : text[i] = "\n\t" /\ text[i + 1] = h

\* the block of h lists names one by one (it is not a count of resources)
ListsNames(text, h) ==
    /\ HasBlock(text, h)
    /\ text[BlockStart(text, h) + 4] \in {"\n", "\n\t\t"}

\* the names listed from fragment i on, up to the end of the block
RECURSIVE NamesFrom(_, _)
NamesFrom(text, i) ==
    IF text[i + 1] = "\n" THEN <<text[i]>>
    ELSE <<text[i]>> \o NamesFrom(text, i + 2)

ListedNames(text, h) == NamesFrom(text, BlockStart(text, h) + 3)

\* the positions of the resolver's list whose name the configuration keeps
KeptPositions(h, resolved) ==
    IF HasFilters
    THEN {j \in 1..Len(resolved) :
              matches_filters(ClaimedCandidate(h, resolved[j]),
                              hook_configuration_data.TargetFilters) = Returned(TRUE)}
    ELSE 1..Len(resolved)

\* listed is the resolver's list cut down to the positions kept: as many
\* lines as positions, the j-th kept position on the line of its rank
InResolverOrder(listed, resolved, kept) ==
    /\ Len(listed) = Cardinality(kept)
    /\ \A j \in kept : listed[Cardinality({p \in kept : p <= j})] = Str(resolved[j])

\* C11: in a block that lists names, the names are in the order in which the
\* resolver returned them: nothing is sorted, made unique or moved, and
\* filtering keeps the relative order of the names that remain.
C11_ResolverOrder ==
    \A k \in 1..Len(total_target_names) :
        LET e == total_target_names[k]
            text == IF pc = "returned" THEN report ELSE compiled_target_handlers_string
        IN  ListsNames(text, e.handler) =>
                InResolverOrder(ListedNames(text, e.handler), e.resolved,
                                KeptPositions(e.handler, e.resolved))

\* the filters drop `b` from (ab, b, a) and the report lists ab before a; the
\* other handler lists a name twice because the resolver returned it twice
C11_Witness ==
    /\ pc = "returned" /\ HasFilters /\ Len(total_target_names) = 2
    /\ total_target_names[1].resolved = << <<"a", "b">>, <<"b">>, <<"a">> >>
    /\ ListsNames(report, total_target_names[1].handler)
    /\ ListedNames(report, total_target_names[1].handler) = <<"ab", "a">>
    /\ total_target_names[2].resolved = LongList(4, 0)
    /\ ListsNames(report, total_target_names[2].handler)
    /\ ListedNames(report, total_target_names[2].handler) = <<"aa", "ab", "a", "aa">>

-----------------------------------------------------------------------------
(* Two calls of the builder with the same arguments.                       *)

-----------------------------------------------------------------------------
(* The sub commands and the control plane they call.                       *)
(*                                                                         *)
(* A command runs between control-plane calls in one step each: a step is  *)
(* a request, the reply to it, and the code up to the next request.  What  *)
(* is printed is kept as records of the values shown; the layout of the    *)
(* text (tabs, line breaks, expandtabs) is not modelled.                   *)

\* str.zfill(width): zeros after a leading sign, nothing for a long string
ZfillWidth == 8

RECURSIVE Zeros(_)
Zeros(n) == IF n <= 0 THEN <<>> ELSE <<"0">> \o Zeros(n - 1)

\* a bug: the id is cut to the width when it is longer
zfill_to_width(s, width) ==
    IF Len(s) >= width THEN SubSeq(s, Len(s) - width + 1, Len(s))
    ELSE Zeros(width - Len(s)) \o s

zfill(s, width) ==
    IF Len(s) >= width THEN s
    ELSE IF s # <<>> /\ s[1] \in {"+", "-"}
         THEN <<s[1]>> \o Zeros(width - Len(s)) \o Tail(s)
         ELSE Zeros(width - Len(s)) \o s

\* a JSON document is a string: json.dumps makes one of a value, json.loads
\* gives the value of one
json_dumps(value) == [json |-> value]
json_loads(text) == text.json

\* project.type_name of the loaded project
ProjectTypeName == "MyCompany::Testing::Hook"

\* one request to the control plane
Request(operation, kwargs) == [operation |-> operation, kwargs |-> kwargs]

\* the errors botocore raises as ClientError (the modelled service exceptions
\* are subclasses of it), and one it does not
ClientErrorKinds == {"TypeNotFoundException", "TypeConfigurationNotFoundException", "ClientError"}
FailureKinds == ClientErrorKinds \cup {"EndpointConnectionError"}

Succeeded(response) == [error |-> "None", response |-> response]
Failed(kind) == [error |-> kind, response |-> EmptyDict]
\* a request as the log of control-plane calls keeps it, with how it ended
Logged(request, reply) == [request |-> request, error |-> reply.error, response |-> reply.response]

Replies(responses) == {Succeeded(r) : r \in responses} \cup {Failed(k) : k \in FailureKinds}

\* the result of a helper: what it raised, what it returned, what it printed
Helper(e, value, printed) == [raised |-> e, value |-> value, printed |-> printed]

-----------------------------------------------------------------------------
(* describe                                                                *)

\* lines 221-225: describe_type with or without VersionId (version is <<>> for
\* None and <<id>> for an id)
HookDataRequest(version) ==
    Request("DescribeType",
            IF version = <<>>
            THEN ("TypeName" :> ProjectTypeName) @@ ("Type" :> "HOOK")
            ELSE ("TypeName" :> ProjectTypeName) @@ ("Type" :> "HOOK") @@ ("VersionId" :> Str(version[1])))

\* a bug: the errors of the service that are not TypeNotFoundException pass through
get_hook_data_unwrapped(reply, version) ==
    IF reply.error = "None" THEN Helper("None", reply.response, <<>>)
    ELSE IF reply.error = "TypeNotFoundException"
    THEN Helper("DownstreamError", EmptyDict,
                << [line |-> "TypeNotFoundException", version |-> version] >>)
    ELSE Helper(reply.error, EmptyDict, <<>>)

\* lines 220-238
get_hook_data(reply, version) ==
    IF reply.error = "None" THEN Helper("None", reply.response, <<>>)
    ELSE IF reply.error = "TypeNotFoundException"
    THEN Helper("DownstreamError", EmptyDict,
                << [line |-> "TypeNotFoundException", version |-> version] >>)
    ELSE IF reply.error \in ClientErrorKinds
    THEN Helper("DownstreamError", EmptyDict, <<>>)
    ELSE Helper(reply.error, EmptyDict, <<>>)

\* lines 258-259
TypeConfigurationRequest(alias) ==
    Request("BatchDescribeTypeConfigurations",
            "TypeConfigurationIdentifiers" :>
                << [Type |-> "HOOK", TypeName |-> ProjectTypeName, TypeConfigurationAlias |-> alias] >>)

\* lines 271-278
SubstituteConfiguration ==
    [CloudFormationConfiguration |->
        [HookConfiguration |-> ("FailureMode" :> "WARN") @@ ("TargetStacks" :> "NONE")]]

\* a bug: an empty TypeConfigurations list is reported as a missing configuration
get_type_configuration_data_strict(reply) ==
    IF reply.error = "None"
    THEN IF reply.response.TypeConfigurations = <<>>
         THEN Helper("DownstreamError", EmptyDict, <<>>)
         ELSE Helper("None", json_loads(reply.response.TypeConfigurations[1].Configuration), <<>>)
    ELSE IF reply.error = "TypeConfigurationNotFoundException"
    THEN Helper("DownstreamError", EmptyDict, << [line |-> "TypeConfigurationNotFoundException"] >>)
    ELSE IF reply.error \in ClientErrorKinds
    THEN Helper("DownstreamError", EmptyDict, <<>>)
    ELSE Helper(reply.error, EmptyDict, <<>>)

\* lines 254-280
get_type_configuration_data(reply) ==
    IF reply.error = "None"
    THEN IF reply.response.TypeConfigurations = <<>>
         THEN Helper("None", SubstituteConfiguration, <<>>)
         ELSE Helper("None", json_loads(reply.response.TypeConfigurations[1].Configuration), <<>>)
    ELSE IF reply.error = "TypeConfigurationNotFoundException"
    THEN Helper("DownstreamError", EmptyDict, << [line |-> "TypeConfigurationNotFoundException"] >>)
    ELSE IF reply.error \in ClientErrorKinds
    THEN Helper("DownstreamError", EmptyDict, <<>>)
    ELSE Helper(reply.error, EmptyDict, <<>>)

\* lines 41-55 and 75-95, the values shown only
build_properties_string(configuration) ==
    IF "Properties" \notin DOMAIN configuration THEN "No configured properties."
    ELSE "Configured properties: " \o configuration.Properties

build_stack_filters_string(configuration) ==
    IF "StackFilters" \notin DOMAIN configuration THEN ""
    ELSE "Stack Filters: " \o configuration.StackFilters

\* the type names of the registry, for the resolver of the describe command
Registry == << <<"a">>, <<"a", "b">>, <<"b">> >>

\* TypeNameResolver.resolve_type_names over Registry
resolve_type_names(patterns) ==
    LET Test(n) == \E i \in 1..Len(patterns) : fnmatch(n, patterns[i])
    IN  SelectSeq(Registry, Test)

\* lines 175-202 as one computation, from handler i on
RECURSIVE BuildBlocks(_, _, _)
BuildBlocks(hs, configuration, i) ==
    IF i > Len(hs) THEN [raised |-> "None", text |-> <<>>]
    ELSE IF hs[i].name \notin DOMAIN handler_names_to_actions
    THEN [raised |-> "InternalError", text |-> <<>>]
    ELSE LET r == Retained(resolve_type_names(hs[i].targetNames), hs[i].name, configuration) IN
         IF r.raised # "None" THEN [raised |-> r.raised, text |-> <<>>]
         ELSE LET rest == BuildBlocks(hs, configuration, i + 1) IN
              IF rest.raised # "None" THEN rest
              ELSE [raised |-> "None",
                    text |-> (IF r.kept = <<>> THEN <<>> ELSE HandlerBlock(hs[i].name, r.kept))
                                 \o rest.text]

\* lines 164-205 as one computation
build_target_handlers_string(versioned_hook_data, configuration) ==
    LET b == BuildBlocks(json_loads(versioned_hook_data.Schema).handlers, configuration, 1) IN
    IF b.raised # "None" THEN b
    ELSE [raised |-> "None",
          text |-> IF b.text = <<>> THEN <<NoTargetsSentinel>> ELSE <<TargetsHeader>> \o b.text]

\* the fragments of a text as one string
RECURSIVE Text(_)
Text(fragments) == IF fragments = <<>> THEN "" ELSE fragments[1] \o Text(Tail(fragments))

\* a bug: only a version id that is None selects the default version
select_version_is_none(a, hook_data) ==
    IF "version_id" \notin DOMAIN a
    THEN hook_data.DefaultVersionId
    ELSE zfill(a.version_id, ZfillWidth)

\* line 306: `not args.version_id` holds for None and for the empty string
select_version(a, hook_data) ==
    IF "version_id" \notin DOMAIN a \/ a.version_id = <<>>
    THEN hook_data.DefaultVersionId
    ELSE zfill(a.version_id, ZfillWidth)

\* --version-id as typed: absent, empty, short, of full width, longer
VersionIdArgs ==
    { <<>>, <<"2">>, <<"1", "2">>,
      <<"0", "0", "0", "0", "0", "0", "0", "2">>,
      <<"1", "2", "3", "4", "5", "6", "7", "8", "9">> }

DescribeArgs == {EmptyDict} \cup {"version_id" :> v : v \in VersionIdArgs}

Version1 == <<"0", "0", "0", "0", "0", "0", "0", "1">>
Version2 == <<"0", "0", "0", "0", "0", "0", "0", "2">>

\* what describe_type may answer: the fields the command reads
TypeDescriptions ==
    { [DefaultVersionId |-> Version1, Description |-> "first", TimeCreated |-> "t1",
       LastUpdated |-> "u1", TypeTestsStatus |-> "PASSED", TypeTestsStatusDescription |-> "passed",
       Schema |-> json_dumps([handlers |-> <<SchemaEntry("preCreate")>>])],
      [DefaultVersionId |-> Version2, Description |-> "second", TimeCreated |-> "t2",
       LastUpdated |-> "u2", TypeTestsStatus |-> "FAILED", TypeTestsStatusDescription |-> "failed",
       Schema |-> json_dumps([handlers |-> <<SchemaEntry("preUpdate"), SchemaEntry("preDelete")>>])],
      [DefaultVersionId |-> Version1, Description |-> "third", TimeCreated |-> "t3",
       LastUpdated |-> "u3", TypeTestsStatus |-> "NOT_TESTED", TypeTestsStatusDescription |-> "untested",
       Schema |-> json_dumps([handlers |-> <<SchemaEntry("preCreate"), SchemaEntry("postDelete")>>])] }

\* hook configurations that were set for the type
HookConfigurationFail == ("FailureMode" :> "FAIL") @@ ("TargetStacks" :> "ALL")
HookConfigurationFiltered ==
    ("FailureMode" :> "WARN") @@ ("TargetStacks" :> "ALL") @@ ("Properties" :> "MinStacks=2")
        @@ ("StackFilters" :> "ANY") @@ ("TargetFilters" :> LambdaInvokerFilters)

TypeConfiguration(hook_configuration) ==
    [Configuration |-> json_dumps([CloudFormationConfiguration |->
                                      [HookConfiguration |-> hook_configuration]])]

\* what batch_describe_type_configurations may answer
TypeConfigurationLists ==
    { <<>>,
      <<TypeConfiguration(HookConfigurationFail)>>,
      <<TypeConfiguration(HookConfigurationFiltered), TypeConfiguration(HookConfigurationFail)>> }

TypeConfigurationResponses == {[TypeConfigurations |-> l] : l \in TypeConfigurationLists}

\* a bug: the exception is noted and the step is taken again
RaiseAndRetry(e) == outcome' = e /\ UNCHANGED pc

\* raise: the command ends with the exception
Raise(e) == pc' = "raised" /\ outcome' = e

\* lines 297-307: the first describe_type and the choice of the version
DescribeType ==
    /\ command = "describe" /\ pc = "describe_type"
    /\ \E reply \in Replies(TypeDescriptions) :
           LET said == IF "version_id" \notin DOMAIN args
                       THEN << [line |-> "No version specified, using default version"] >>
                       ELSE <<>>
               got == get_hook_data(reply, <<>>)
           IN  /\ api_calls' = Append(api_calls, Logged(HookDataRequest(<<>>), reply))
               /\ IF got.raised # "None"
                  THEN /\ Raise(got.raised)
                       /\ stdout' = stdout \o said \o got.printed
                       /\ UNCHANGED locals
                  ELSE LET version_id == select_version(args, got.value) IN
                       /\ locals' = ("hook_data" :> got.value) @@ ("version_id" :> version_id)
                       /\ stdout' = stdout \o said
                                        \o << [line |-> "Selected version", version |-> Str(version_id)] >>
                       /\ pc' = "describe_version"
                       /\ UNCHANGED outcome
    /\ UNCHANGED <<matcher_vars, report_vars, extension_vars, command, args, environ, account, prompts>>

\* line 309: describe_type for the selected version
DescribeVersion ==
    /\ command = "describe" /\ pc = "describe_version"
    /\ \E reply \in Replies(TypeDescriptions) :
           LET got == get_hook_data(reply, <<locals.version_id>>) IN
           /\ api_calls' = Append(api_calls, Logged(HookDataRequest(<<locals.version_id>>), reply))
           /\ stdout' = stdout \o got.printed
           /\ IF got.raised # "None"
              THEN Raise(got.raised) /\ UNCHANGED locals
              ELSE /\ locals' = locals @@ ("versioned_hook_data" :> got.value)
                   /\ pc' = "describe_configuration"
                   /\ UNCHANGED outcome
    /\ UNCHANGED <<matcher_vars, report_vars, extension_vars, command, args, environ, account, prompts>>

\* a bug: the default version shown is read from the versioned response
current_configuration_versioned(l, configuration) ==
    [DefaultVersion |-> Str(l.versioned_hook_data.DefaultVersionId),
     FailureMode |-> configuration.FailureMode,
     TargetStacks |-> configuration.TargetStacks,
     StackFilters |-> build_stack_filters_string(configuration),
     Properties |-> build_properties_string(configuration)]

\* lines 313-322: current_configuration_string, from the locals l
current_configuration(l, configuration) ==
    [DefaultVersion |-> Str(l.hook_data.DefaultVersionId),
     FailureMode |-> configuration.FailureMode,
     TargetStacks |-> configuration.TargetStacks,
     StackFilters |-> build_stack_filters_string(configuration),
     Properties |-> build_properties_string(configuration)]

\* lines 310-322: the configuration of the alias `default`
DescribeConfiguration ==
    /\ command = "describe" /\ pc = "describe_configuration"
    /\ \E reply \in Replies(TypeConfigurationResponses) :
           LET got == get_type_configuration_data(reply) IN
           /\ api_calls' = Append(api_calls, Logged(TypeConfigurationRequest("default"), reply))
           /\ stdout' = stdout \o got.printed
           /\ IF got.raised # "None"
              THEN Raise(got.raised) /\ UNCHANGED locals
              ELSE LET hook_configuration ==
                           got.value.CloudFormationConfiguration.HookConfiguration
                   IN  /\ locals' = locals
                              @@ ("type_configuration_data" :> got.value)
                              @@ ("hook_configuration_data" :> hook_configuration)
                              @@ ("current_configuration_string" :>
                                      current_configuration(locals, hook_configuration))
                       /\ pc' = "describe_targets"
                       /\ UNCHANGED outcome
    /\ UNCHANGED <<matcher_vars, report_vars, extension_vars, command, args, environ, account, prompts>>

\* lines 326-334: what the command prints at the end
DescriptionPrinted(l, targets) ==
    [line |-> "Description",
     Description |-> l.versioned_hook_data.Description,
     Version |-> Str(l.version_id),
     TimeCreated |-> l.versioned_hook_data.TimeCreated,
     LastUpdated |-> l.versioned_hook_data.LastUpdated,
     CurrentConfiguration |-> l.current_configuration_string,
     Targets |-> Text(targets),
     TestingStatus |-> l.versioned_hook_data.TypeTestsStatus]

\* lines 324-334: the target report and the final print; the resolver may fail
DescribeTargets ==
    /\ command = "describe" /\ pc = "describe_targets"
    /\ \/ Raise("ResolverError") /\ UNCHANGED <<locals, stdout>>
       \/ LET built == build_target_handlers_string(locals.versioned_hook_data,
                                                    locals.hook_configuration_data)
          IN  IF built.raised # "None"
              THEN Raise(built.raised) /\ UNCHANGED <<locals, stdout>>
              ELSE /\ locals' = locals @@ ("compiled_target_handlers_string" :> built.text)
                   /\ stdout' = stdout \o <<DescriptionPrinted(locals, built.text)>>
                          \o (IF locals.versioned_hook_data.TypeTestsStatus # "PASSED"
                              THEN << [line |-> "Warning",
                                       text |-> locals.versioned_hook_data.TypeTestsStatusDescription] >>
                              ELSE <<>>)
                   /\ pc' = "done"
                   /\ UNCHANGED outcome
    /\ UNCHANGED <<matcher_vars, report_vars, extension_vars, command, args, environ, account, api_calls, prompts>>

-----------------------------------------------------------------------------
(* enable-lambda-function-invoker                                          *)

Whitespace == {" ", "\t", "\n"}

\* str.split(sep) for a separator of one character
RECURSIVE Split(_, _)
Split(s, sep) ==
    IF \A i \in 1..Len(s) : s[i] # sep THEN <<s>>
    ELSE LET i == CHOOSE k \in 1..Len(s) : s[k] = sep /\ \A j \in 1..(k - 1) : s[j] # sep
         IN  <<SubSeq(s, 1, i - 1)>> \o Split(SubSeq(s, i + 1, Len(s)), sep)

\* str.strip()
RECURSIVE Strip(_)
Strip(s) ==
    IF s = <<>> THEN s
    ELSE IF s[1] \in Whitespace THEN Strip(Tail(s))
    ELSE IF s[Len(s)] \in Whitespace THEN Strip(SubSeq(s, 1, Len(s) - 1))
    ELSE s

\* str.lower() on the letters a prompt is answered with
LowerChar(c) ==
    CASE c = "Y" -> "y" [] c = "N" -> "n" [] c = "E" -> "e" [] c = "S" -> "s" [] c = "O" -> "o"
      [] OTHER -> c

lower(s) == [i \in 1..Len(s) |-> LowerChar(s[i])]

\* an argument that is not None and not empty (one that is None is absent),
\* for an argument kept as text and for one kept character by character
Truthy(a, key) == key \in DOMAIN a /\ a[key] # ""
TruthyChars(a, key) == key \in DOMAIN a /\ a[key] # <<>>

\* a bug: the names are split at the commas and kept with their blanks
build_configuration_json_string_unstripped(a) ==
    LET hook_configuration ==
            ("FailureMode" :> IF Truthy(a, "failure_mode") THEN a.failure_mode ELSE "FAIL")
                @@ ("TargetStacks" :> "ALL")
                @@ ("Properties" :> [LambdaFunctions |-> <<a.lambda_function_arn>>])
        target_filters ==
            ("TargetNames" :> Split(a.include_targets, ",")) @@ ("Actions" :> <<"CREATE", "UPDATE">>)
                @@ ("InvocationPoints" :> <<"PRE_PROVISION">>)
    IN  json_dumps([CloudFormationConfiguration |->
                       [HookConfiguration |->
                           IF TruthyChars(a, "include_targets")
                           THEN hook_configuration @@ ("TargetFilters" :> target_filters)
                           ELSE hook_configuration]])

\* a bug: the filters of the lambda invoker let every action through
build_configuration_json_string_all_actions(a) ==
    LET hook_configuration ==
            ("FailureMode" :> IF Truthy(a, "failure_mode") THEN a.failure_mode ELSE "FAIL")
                @@ ("TargetStacks" :> "ALL")
                @@ ("Properties" :> [LambdaFunctions |-> <<a.lambda_function_arn>>])
        target_names == LET parts == Split(a.include_targets, ",")
                        IN  [i \in 1..Len(parts) |-> Strip(parts[i])]
        target_filters ==
            ("TargetNames" :> target_names) @@ ("Actions" :> <<"CREATE", "UPDATE", "DELETE">>)
                @@ ("InvocationPoints" :> <<"PRE_PROVISION">>)
    IN  json_dumps([CloudFormationConfiguration |->
                       [HookConfiguration |->
                           IF TruthyChars(a, "include_targets")
                           THEN hook_configuration @@ ("TargetFilters" :> target_filters)
                           ELSE hook_configuration]])

\* lines 93-117
build_configuration_json_string(a) ==
    LET hook_configuration ==
            ("FailureMode" :> IF Truthy(a, "failure_mode") THEN a.failure_mode ELSE "FAIL")
                @@ ("TargetStacks" :> "ALL")
                @@ ("Properties" :> [LambdaFunctions |-> <<a.lambda_function_arn>>])
        target_names == LET parts == Split(a.include_targets, ",")
                        IN  [i \in 1..Len(parts) |-> Strip(parts[i])]
        target_filters ==
            ("TargetNames" :> target_names) @@ ("Actions" :> <<"CREATE", "UPDATE">>)
                @@ ("InvocationPoints" :> <<"PRE_PROVISION">>)
    IN  json_dumps([CloudFormationConfiguration |->
                       [HookConfiguration |->
                           IF TruthyChars(a, "include_targets")
                           THEN hook_configuration @@ ("TargetFilters" :> target_filters)
                           ELSE hook_configuration]])

LambdaFunctionInvoker == "AWSSamples::LambdaFunctionInvoker::Hook"

\* Python's None where it is passed on as a value
None == "<None>"

\* the value of an argument of the Namespace, None for one that was not given
Get(a, key) == IF key \in DOMAIN a THEN a[key] ELSE None

PublisherId == "096debcd443a84c983955f8f8476c221b2b08d8b"

\* lines 34-41: ExecutionRoleArn is always among the keyword arguments,
\* TypeNameAlias only for an alias that is not empty
ActivateTypeRequest(a) ==
    LET kwargs == ("TypeName" :> LambdaFunctionInvoker) @@ ("Type" :> "HOOK")
                      @@ ("PublisherId" :> PublisherId)
                      @@ ("ExecutionRoleArn" :> Get(a, "execution_role_arn"))
    IN  Request("ActivateType",
                IF Truthy(a, "alias") THEN kwargs @@ ("TypeNameAlias" :> a.alias) ELSE kwargs)

\* botocore validates the keyword arguments before it sends anything: a None
\* among them is ParamValidationError, which is not a ClientError
RepliesTo(request, responses) ==
    IF \E k \in DOMAIN request.kwargs : request.kwargs[k] = None
    THEN {Failed("ParamValidationError")}
    ELSE Replies(responses)

\* a bug: the configuration is set on an ARN made up from the type name
LambdaConfigurationRequestByName(l, a) ==
    Request("SetTypeConfiguration",
            ("TypeArn" :> LambdaFunctionInvoker)
                @@ ("Configuration" :> build_configuration_json_string(a)))

\* lines 146-149 and 71: the request of _set_type_configuration
LambdaConfigurationRequest(l, a) ==
    Request("SetTypeConfiguration",
            ("TypeArn" :> l.lambda_hook_arn)
                @@ ("Configuration" :> build_configuration_json_string(a)))

\* lines 43-52 and 70-79, and the helpers of configure and set-default-version:
\* TypeNotFoundException is printed, and every ClientError becomes DownstreamError
wrap_client_error(reply, message) ==
    IF reply.error = "None" THEN Helper("None", reply.response, <<>>)
    ELSE IF reply.error = "TypeNotFoundException"
    THEN Helper("DownstreamError", EmptyDict, << [line |-> message] >>)
    ELSE IF reply.error \in ClientErrorKinds
    THEN Helper("DownstreamError", EmptyDict, <<>>)
    ELSE Helper(reply.error, EmptyDict, <<>>)

\* a bug: any value that is set enables the command
experimental_enabled_when_set(env) ==
    /\ "CFN_CLI_HOOKS_EXPERIMENTAL" \in DOMAIN env
    /\ env["CFN_CLI_HOOKS_EXPERIMENTAL"] # ""

\* line 133
experimental_enabled(env) ==
    /\ "CFN_CLI_HOOKS_EXPERIMENTAL" \in DOMAIN env
    /\ env["CFN_CLI_HOOKS_EXPERIMENTAL"] # ""
    /\ env["CFN_CLI_HOOKS_EXPERIMENTAL"] = "enabled"

\* a bug: only a lower-case y confirms
confirmed_exactly(user_response) == user_response = <<"y">>

\* line 140
confirmed(user_response) == lower(user_response) = <<"y">>

Environments ==
    {EmptyDict} \cup {"CFN_CLI_HOOKS_EXPERIMENTAL" :> v : v \in {"", "enabled", "Enabled", "true"}}

\* what may be typed at the prompt
Answers == { <<"y">>, <<"Y">>, <<>>, <<"n">>, <<"y", "e", "s">>, <<"Y", " ">> }

IncludeTargetsArgs == { <<>>, <<"a">>, <<"a", ",", " ", "b", "*", " ">>, <<" ", ",">> }

EnableArgs ==
    { required @@ execution_role_arn @@ failure_mode @@ alias @@ include_targets :
        required \in {"lambda_function_arn" :> "arn:lambda"},
        execution_role_arn \in {EmptyDict, "execution_role_arn" :> "arn:role"},
        failure_mode \in {EmptyDict} \cup {"failure_mode" :> m : m \in {"", "WARN"}},
        alias \in {EmptyDict, "alias" :> "My::Alias::Hook"},
        include_targets \in {EmptyDict} \cup {"include_targets" :> t : t \in IncludeTargetsArgs} }

ActivateTypeResponses == {[Arn |-> "arn:hook:1"], [Arn |-> "arn:hook:2"]}
SetTypeConfigurationResponses == {[ConfigurationArn |-> "arn:configuration"]}

\* lines 133-144: the experimental flag, then the confirmation
EnableStart ==
    /\ command = "enable-lambda-function-invoker" /\ pc = "enable_start"
    /\ IF ~experimental_enabled(environ)
       THEN Raise("SysExitRecommendedError") /\ UNCHANGED <<locals, prompts>>
       ELSE IF "include_targets" \notin DOMAIN args
       THEN \E answer \in Answers :
                /\ prompts' = prompts + 1
                /\ locals' = locals @@ ("user_response" :> answer)
                /\ IF ~confirmed(answer)
                   THEN Raise("SysExitRecommendedError")
                   ELSE pc' = "activate_type" /\ UNCHANGED outcome
       ELSE pc' = "activate_type" /\ UNCHANGED <<outcome, locals, prompts>>
    /\ UNCHANGED <<matcher_vars, report_vars, extension_vars, command, args, environ, account, api_calls, stdout>>

\* line 146
EnableActivateType ==
    /\ command = "enable-lambda-function-invoker" /\ pc = "activate_type"
    /\ \E reply \in RepliesTo(ActivateTypeRequest(args), ActivateTypeResponses) :
           LET got == wrap_client_error(reply, "Setting type configuration resulted in TypeNotFoundException.") IN
           /\ api_calls' = Append(api_calls, Logged(ActivateTypeRequest(args), reply))
           /\ stdout' = stdout \o got.printed
           /\ IF got.raised # "None"
              THEN Raise(got.raised) /\ UNCHANGED <<locals, account>>
              ELSE /\ locals' = locals @@ ("lambda_hook_arn" :> got.value.Arn)
                   /\ account' = [account EXCEPT !.activated = TRUE]
                   /\ pc' = "set_type_configuration"
                   /\ UNCHANGED outcome
    /\ UNCHANGED <<matcher_vars, report_vars, extension_vars, command, args, environ, prompts>>

\* lines 148-152
EnableSetTypeConfiguration ==
    /\ command = "enable-lambda-function-invoker" /\ pc = "set_type_configuration"
    /\ \E reply \in Replies(SetTypeConfigurationResponses) :
           LET request == LambdaConfigurationRequest(locals, args)
               got == wrap_client_error(reply, "Setting type configuration resulted in TypeNotFoundException. Have you registered this hook first?")
           IN  /\ api_calls' = Append(api_calls, Logged(request, reply))
               /\ locals' = locals @@ ("configuration_json" :> request.kwargs.Configuration)
               /\ IF got.raised # "None"
                  THEN Raise(got.raised) /\ stdout' = stdout \o got.printed /\ UNCHANGED account
                  ELSE /\ account' = [account EXCEPT !.configuration = <<request.kwargs.Configuration>>]
                       /\ stdout' = stdout \o
                              << [line |-> "Success",
                                  hook |-> IF Truthy(args, "alias") THEN args.alias ELSE LambdaFunctionInvoker,
                                  resources |-> IF TruthyChars(args, "include_targets")
                                                THEN Str(args.include_targets) ELSE "ALL",
                                  mode |-> IF Truthy(args, "failure_mode") THEN args.failure_mode ELSE "FAIL"] >>
                       /\ pc' = "done"
                       /\ UNCHANGED outcome
    /\ UNCHANGED <<matcher_vars, report_vars, extension_vars, command, args, environ, prompts>>

-----------------------------------------------------------------------------
(* configure and set-default-version                                       *)

\* the files of the working directory and what they hold, the text of a file
\* being a sequence of pieces, a line ending a piece of its own
ConfigurationText == "{\"CloudFormationConfiguration\": {}}"
Files ==
    ("configuration.json" :> <<ConfigurationText, "\n">>)
        @@ ("dos.json" :> <<"{", "\r", "\n", ConfigurationText, "\r", "\n", "}", "\r">>)

ConfigureArgs ==
    {"configuration_path" :> f : f \in {"configuration.json", "dos.json", "missing.json"}}

\* a bug: the file is read as it is stored
file_read_untranslated(content) == Str(content)

\* lines 66-72: open(path, 'r', encoding="utf-8") reads with universal
\* newlines, so \r\n and a lone \r are read as \n
file_read(content) ==
    LET translated[i \in 0..Len(content)] ==
            IF i = 0 THEN <<>>
            ELSE IF content[i] # "\r" THEN Append(translated[i - 1], content[i])
            ELSE IF i < Len(content) /\ content[i + 1] = "\n" THEN translated[i - 1]
            ELSE Append(translated[i - 1], "\n")
    IN  Str(translated[Len(content)])

\* lines 35 and 74: the request of _set_type_configuration
ConfigureRequest(configuration_json) ==
    Request("SetTypeConfiguration",
            ("TypeName" :> ProjectTypeName) @@ ("Type" :> "HOOK")
                @@ ("Configuration" :> configuration_json))

SetDefaultVersionArgs == {"version_id" :> v : v \in VersionIdArgs}

\* configure_hook.py lines 34-43 and 60-75
ConfigureHook ==
    /\ command = "configure" /\ pc = "configure"
    /\ IF args.configuration_path \notin DOMAIN Files
       THEN Raise("InvalidProjectError") /\ UNCHANGED <<locals, api_calls, account, stdout>>
       ELSE \E reply \in Replies(SetTypeConfigurationResponses) :
                LET configuration_json == file_read(Files[args.configuration_path])
                    request == ConfigureRequest(configuration_json)
                    got == wrap_client_error(reply, "Setting type configuration resulted in TypeNotFoundException. Have you registered this hook first?")
                IN  /\ api_calls' = Append(api_calls, Logged(request, reply))
                    /\ locals' = locals @@ ("configuration_json" :> configuration_json)
                    /\ IF got.raised # "None"
                       THEN Raise(got.raised) /\ stdout' = stdout \o got.printed /\ UNCHANGED account
                       ELSE /\ account' = [account EXCEPT !.configuration = <<configuration_json>>]
                            /\ stdout' = stdout \o << [line |-> "ConfigurationArn",
                                                       arn |-> got.value.ConfigurationArn] >>
                            /\ pc' = "done"
                            /\ UNCHANGED outcome
    /\ UNCHANGED <<matcher_vars, report_vars, extension_vars, command, args, environ, prompts>>

\* set_default_hook_version.py lines 33-41 and 54-61
SetDefaultHookVersion ==
    /\ command = "set-default-version" /\ pc = "set_default_version"
    /\ \E reply \in Replies({EmptyDict}) :
           LET version_id == zfill(args.version_id, ZfillWidth)
               request == Request("SetTypeDefaultVersion",
                                  ("Type" :> "HOOK") @@ ("TypeName" :> ProjectTypeName)
                                      @@ ("VersionId" :> Str(version_id)))
               got == wrap_client_error(reply, "Trying to set type default version resulted in TypeNotFoundException.")
           IN  /\ api_calls' = Append(api_calls, Logged(request, reply))
               /\ locals' = locals @@ ("version_id" :> version_id)
               /\ stdout' = stdout \o got.printed
               /\ IF got.raised # "None"
                  THEN Raise(got.raised) /\ UNCHANGED account
                  ELSE /\ account' = [account EXCEPT !.default_version = <<version_id>>]
                       /\ pc' = "done"
                       /\ UNCHANGED outcome
    /\ UNCHANGED <<matcher_vars, report_vars, extension_vars, command, args, environ, prompts>>

-----------------------------------------------------------------------------
(* One run of a sub command.                                               *)

InitCommand ==
    /\ MatcherIdle
    /\ ReportIdle
    /\ ExtensionIdle
    /\ account = NoAccount
    /\ api_calls = <<>>
    /\ locals = EmptyDict
    /\ stdout = <<>>
    /\ prompts = 0
    /\ outcome = "None"
    /\ \/ command = "describe" /\ pc = "describe_type"
          /\ args \in DescribeArgs /\ environ = EmptyDict
       \/ command = "enable-lambda-function-invoker" /\ pc = "enable_start"
          /\ args \in EnableArgs /\ environ \in Environments
       \/ command = "configure" /\ pc = "configure"
          /\ args \in ConfigureArgs /\ environ = EmptyDict
       \/ command = "set-default-version" /\ pc = "set_default_version"
          /\ args \in SetDefaultVersionArgs /\ environ = EmptyDict

NextCommand ==
    \/ DescribeType \/ DescribeVersion \/ DescribeConfiguration \/ DescribeTargets
    \/ EnableStart \/ EnableActivateType \/ EnableSetTypeConfiguration
    \/ ConfigureHook
    \/ SetDefaultHookVersion

SpecCommand == InitCommand /\ [][NextCommand]_vars

-----------------------------------------------------------------------------
(* The extension classes of src/hooks_extension: ConfigureHookExtension    *)
(* and SetDefaultHookVersionExtension keep the client in the class         *)
(* attribute _cfn_client.  Invocations run in threads of one process and   *)
(* interleave between statements.                                          *)

MaxInvocations == 2

Regions == {"us-east-1", "eu-west-1"}

\* the Namespace of an invocation of either class
ExtensionArgs(class) ==
    IF class = "ConfigureHookExtension"
    THEN {[region |-> r, configuration_path |-> f] :
              r \in Regions, f \in {"configuration.json", "missing.json"}}
    ELSE {[region |-> r, version_id |-> <<"2">>] : r \in Regions}

\* create_sdk_session(args.region, args.profile).client(...): a new client
\* object each time, bound to the region of the arguments
Client(i, a) == [built_by |-> i, region |-> a.region]

Started(class, a) ==
    [class |-> class, args |-> a, at |-> "start", built |-> NoClient,
     outcome |-> "None", printed |-> <<>>]

InitExtension ==
    /\ pc = "extension"
    /\ MatcherIdle
    /\ ReportIdle
    /\ CommandIdle
    /\ cfn_client = [c \in ExtensionClasses |-> NoClient]
    /\ client_calls = <<>>
    /\ \E classes \in [1..MaxInvocations -> ExtensionClasses] :
           invocations \in [1..MaxInvocations ->
                               UNION {{Started(c, a) : a \in ExtensionArgs(c)} : c \in ExtensionClasses}]
           /\ \A i \in 1..MaxInvocations : invocations[i].class = classes[i]

\* a call as the log keeps it: who made it, through which client, how it ended
ClientCall(i, client, request, reply) ==
    [invocation |-> i, client |-> client, request |-> request, error |-> reply.error]

\* the class variants wrap as the functions do, but print only the message of
\* set-default-hook-version (configure_hook.py 44-48, set_default_hook_version.py 41-46)
extension_wrap_client_error(reply, printed) ==
    IF reply.error = "None" THEN Helper("None", reply.response, <<>>)
    ELSE IF reply.error = "TypeNotFoundException" THEN Helper("DownstreamError", EmptyDict, printed)
    ELSE IF reply.error \in ClientErrorKinds THEN Helper("DownstreamError", EmptyDict, <<>>)
    ELSE Helper(reply.error, EmptyDict, <<>>)

\* configure_hook.py line 64 and set_default_hook_version.py line 59: the new
\* client is assigned to the attribute of the class
ExtensionCreateClient ==
    \E i \in 1..MaxInvocations :
        /\ pc = "extension"
        /\ invocations[i].at = "start"
        /\ cfn_client' = [cfn_client EXCEPT ![invocations[i].class] = Client(i, invocations[i].args)]
        /\ invocations' = [invocations EXCEPT ![i].at = "built",
                                              ![i].built = Client(i, invocations[i].args)]
        /\ UNCHANGED <<pc, matcher_vars, report_vars, command_vars, client_calls>>

\* configure_hook.py lines 65-80: the file is read, then self._cfn_client,
\* which is the attribute of the class as it is now, makes the call
ExtensionConfigureHook ==
    \E i \in 1..MaxInvocations :
        /\ pc = "extension"
        /\ invocations[i].class = "ConfigureHookExtension" /\ invocations[i].at = "built"
        /\ IF invocations[i].args.configuration_path \notin DOMAIN Files
           THEN /\ invocations' = [invocations EXCEPT ![i].at = "raised",
                                                      ![i].outcome = "InvalidProjectError"]
                /\ UNCHANGED client_calls
           ELSE \E reply \in Replies(SetTypeConfigurationResponses) :
                    LET request == ConfigureRequest(file_read(Files[invocations[i].args.configuration_path]))
                        got == extension_wrap_client_error(reply, <<>>)
                    IN  /\ client_calls' =
                               Append(client_calls,
                                      ClientCall(i, cfn_client["ConfigureHookExtension"], request, reply))
                        /\ invocations' =
                               IF got.raised # "None"
                               THEN [invocations EXCEPT ![i].at = "raised", ![i].outcome = got.raised]
                               ELSE [invocations EXCEPT
                                        ![i].at = "done",
                                        ![i].printed = << [line |-> "ConfigurationArn",
                                                           arn |-> got.value.ConfigurationArn] >>]
        /\ UNCHANGED <<pc, matcher_vars, report_vars, command_vars, cfn_client>>

\* set_default_hook_version.py lines 61-66
ExtensionSetDefaultHookVersion ==
    \E i \in 1..MaxInvocations :
        /\ pc = "extension"
        /\ invocations[i].class = "SetDefaultHookVersionExtension" /\ invocations[i].at = "built"
        /\ \E reply \in Replies({EmptyDict}) :
               LET request == Request("SetTypeDefaultVersion",
                                      ("Type" :> "HOOK") @@ ("TypeName" :> ProjectTypeName)
                                          @@ ("VersionId" :> Str(zfill(invocations[i].args.version_id,
                                                                       ZfillWidth))))
                   got == extension_wrap_client_error(
                              reply, << [line |-> "Trying to set type default version resulted in TypeNotFoundException. You may need to register the hook first."] >>)
               IN  /\ client_calls' =
                          Append(client_calls,
                                 ClientCall(i, cfn_client["SetDefaultHookVersionExtension"], request, reply))
                   /\ invocations' =
                          IF got.raised # "None"
                          THEN [invocations EXCEPT ![i].at = "raised", ![i].outcome = got.raised,
                                                   ![i].printed = got.printed]
                          ELSE [invocations EXCEPT ![i].at = "done"]
        /\ UNCHANGED <<pc, matcher_vars, report_vars, command_vars, cfn_client>>

NextExtension == ExtensionCreateClient \/ ExtensionConfigureHook \/ ExtensionSetDefaultHookVersion

SpecExtension == InitExtension /\ [][NextExtension]_vars

-----------------------------------------------------------------------------
(* Claims on the sub commands, checked under SpecCommand.                  *)

Describing == command = "describe"
Enabling == command = "enable-lambda-function-invoker"
Finished == pc = "done"

\* the line of that name was printed; the first such line
Printed(name) == \E i \in 1..Len(stdout) : stdout[i].line = name
Line(name) == stdout[CHOOSE i \in 1..Len(stdout) : stdout[i].line = name]

\* s with zeros put in front until it is 8 characters long
LeftPadded(s) == [i \in 1..(8 - Len(s)) |-> "0"] \o s

\* the three requests of a describe that selected version v
DescribeRequests(v) ==
    << [operation |-> "DescribeType",
        kwargs |-> [TypeName |-> ProjectTypeName, Type |-> "HOOK"]],
       [operation |-> "DescribeType",
        kwargs |-> [TypeName |-> ProjectTypeName, Type |-> "HOOK", VersionId |-> Str(v)]],
       [operation |-> "BatchDescribeTypeConfigurations",
        kwargs |-> [TypeConfigurationIdentifiers |->
                       << [Type |-> "HOOK", TypeName |-> ProjectTypeName,
                           TypeConfigurationAlias |-> "default"] >>]] >>

RequestsMade == [i \in 1..Len(api_calls) |-> api_calls[i].request]

ConfigurationOf(response) ==
    IF response.TypeConfigurations = <<>>
    THEN ("FailureMode" :> "WARN") @@ ("TargetStacks" :> "NONE")
    ELSE response.TypeConfigurations[1].Configuration.json.CloudFormationConfiguration.HookConfiguration

\* C14: what describe prints as the default version is the DefaultVersionId of
\* the answer to the request without VersionId, and the failure mode, the target
\* stacks and the target filters are those of the configuration of the alias
\* `default`, also when --version-id selects another version; the description,
\* the two times, the handlers of the schema and the test status are those of
\* the answer to the request with VersionId.
C14_DefaultAndVersioned ==
    (Describing /\ Finished) =>
        LET unversioned == api_calls[1].response
            versioned == api_calls[2].response
            configuration == ConfigurationOf(api_calls[3].response)
            shown == Line("Description")
        IN  /\ Printed("Description")
            /\ api_calls[3].request.kwargs.TypeConfigurationIdentifiers[1].TypeConfigurationAlias = "default"
            /\ shown.CurrentConfiguration.DefaultVersion = Str(unversioned.DefaultVersionId)
            /\ shown.CurrentConfiguration.FailureMode = configuration.FailureMode
            /\ shown.CurrentConfiguration.TargetStacks = configuration.TargetStacks
            /\ shown.Description = versioned.Description
            /\ shown.TimeCreated = versioned.TimeCreated
            /\ shown.LastUpdated = versioned.LastUpdated
            /\ shown.TestingStatus = versioned.TypeTestsStatus
            /\ shown.Targets = Text(build_target_handlers_string(versioned, configuration).text)

\* version 2 was asked for and answered while version 1 is the default: the
\* default shown is 00000001, the description is that of version 2, and the
\* targets are the handlers of version 2 under the filters of the configuration
C14_Witness ==
    /\ Describing /\ Finished
    /\ "version_id" \in DOMAIN args /\ args.version_id = <<"2">>
    /\ api_calls[1].response.DefaultVersionId = Version1
    /\ api_calls[2].response.DefaultVersionId = Version2
    /\ ConfigurationOf(api_calls[3].response) = HookConfigurationFiltered
    /\ Line("Description").CurrentConfiguration.DefaultVersion = "00000001"
    /\ Line("Description").Description = "second"
    /\ Line("Description").Version = "00000002"
    /\ Printed("Warning")

\* BatchDescribeTypeConfigurations was answered without an error
ConfigurationsAnswered ==
    /\ Describing /\ Len(api_calls) >= 3
    /\ api_calls[3].error = "None"

\* C15: when BatchDescribeTypeConfigurations answers with an empty
\* TypeConfigurations list, _get_type_configuration_data raises nothing and
\* returns the substitute {CloudFormationConfiguration: {HookConfiguration:
\* {FailureMode: WARN, TargetStacks: NONE}}}; when the list is not empty it
\* returns the parsed Configuration of the first entry.
C15_SubstituteConfiguration ==
    ConfigurationsAnswered =>
        LET answered == api_calls[3].response.TypeConfigurations IN
        /\ pc \in {"describe_targets", "done"} \/ outcome \notin {"DownstreamError", "IndexError"}
        /\ "type_configuration_data" \in DOMAIN locals
        /\ locals.type_configuration_data =
               IF answered = <<>>
               THEN [CloudFormationConfiguration |->
                        [HookConfiguration |-> [FailureMode |-> "WARN", TargetStacks |-> "NONE"]]]
               ELSE answered[1].Configuration.json

\* the list was empty and describe went on to print WARN and NONE
C15_Witness ==
    /\ ConfigurationsAnswered /\ Finished
    /\ api_calls[3].response.TypeConfigurations = <<>>
    /\ Line("Description").CurrentConfiguration.FailureMode = "WARN"
    /\ Line("Description").CurrentConfiguration.TargetStacks = "NONE"

\* the operations of the control plane that the commands call
Operations ==
    {"DescribeType", "BatchDescribeTypeConfigurations", "SetTypeConfiguration",
     "SetTypeDefaultVersion", "ActivateType"}

\* C16: in every command, a control-plane call (DescribeType,
\* BatchDescribeTypeConfigurations, SetTypeConfiguration, SetTypeDefaultVersion,
\* ActivateType) that fails with TypeNotFoundException,
\* TypeConfigurationNotFoundException or any other client error ends the
\* command with DownstreamError: the failure is not swallowed and is not raised
\* as another kind of error.
C16_DownstreamError ==
    \A i \in 1..Len(api_calls) :
        /\ api_calls[i].request.operation \in Operations
        /\ api_calls[i].error \in {"TypeNotFoundException", "TypeConfigurationNotFoundException",
                                   "ClientError"}
               => (pc = "raised" /\ outcome = "DownstreamError")

\* DescribeType for the selected version failed with
\* TypeConfigurationNotFoundException, which only the ClientError clause catches
C16_Witness ==
    /\ Describing /\ pc = "raised" /\ outcome = "DownstreamError"
    /\ Len(api_calls) = 2
    /\ api_calls[2].request.operation = "DescribeType"
    /\ api_calls[2].error = "TypeConfigurationNotFoundException"

\* the requests of that operation that succeeded
Successes(operation) ==
    {i \in 1..Len(api_calls) :
        api_calls[i].request.operation = operation /\ api_calls[i].error = "None"}

\* C17: a failure at any step ends the command there: no request follows a
\* failed one, nothing is tried again, no step remains to be taken, and what
\* the successful requests did is not undone (a type that ActivateType
\* activated stays activated when SetTypeConfiguration fails, and
\* SetTypeConfiguration is not called when ActivateType fails).
C17_FailureAborts ==
    /\ \A i \in 1..Len(api_calls) : api_calls[i].error # "None" => i = Len(api_calls)
    /\ (api_calls # <<>> /\ api_calls[Len(api_calls)].error # "None") => pc = "raised"
    /\ outcome # "None" <=> pc = "raised"
    /\ pc = "raised" => ~ENABLED NextCommand
    /\ account.activated = (Successes("ActivateType") # {})
    /\ (account.configuration # <<>>) = (Successes("SetTypeConfiguration") # {})
    /\ (account.default_version # <<>>) = (Successes("SetTypeDefaultVersion") # {})

\* ActivateType succeeded and SetTypeConfiguration failed: the type is
\* activated, has no configuration, and nothing was printed as a success
C17_Witness ==
    /\ Enabling /\ pc = "raised"
    /\ Len(api_calls) = 2
    /\ api_calls[1].error = "None" /\ api_calls[2].error = "ClientError"
    /\ account.activated /\ account.configuration = <<>>
    /\ ~Printed("Success")

\* CFN_CLI_HOOKS_EXPERIMENTAL is set to exactly `enabled`
FlagEnabled ==
    /\ "CFN_CLI_HOOKS_EXPERIMENTAL" \in DOMAIN environ
    /\ environ["CFN_CLI_HOOKS_EXPERIMENTAL"] = "enabled"

\* C18: enable-lambda-function-invoker, run while CFN_CLI_HOOKS_EXPERIMENTAL is
\* unset, empty or anything but `enabled`, raises SysExitRecommendedError
\* before it asks anything and before any control-plane call.
C18_ExperimentalFlag ==
    (Enabling /\ ~FlagEnabled /\ pc # "enable_start") =>
        /\ pc = "raised" /\ outcome = "SysExitRecommendedError"
        /\ prompts = 0
        /\ api_calls = <<>>

\* the variable is set to `Enabled`, no include-targets was given
C18_Witness ==
    /\ Enabling /\ pc = "raised" /\ outcome = "SysExitRecommendedError"
    /\ "CFN_CLI_HOOKS_EXPERIMENTAL" \in DOMAIN environ
    /\ environ["CFN_CLI_HOOKS_EXPERIMENTAL"] = "Enabled"
    /\ "include_targets" \notin DOMAIN args
    /\ prompts = 0

\* C19: with the flag enabled and no include-targets given, the command asks
\* for confirmation once; an answer other than `y` or `Y` (the empty answer
\* too) raises SysExitRecommendedError without any control-plane call, and
\* `y` or `Y` goes on to ActivateType.
C19_Confirmation ==
    (Enabling /\ FlagEnabled /\ "include_targets" \notin DOMAIN args /\ pc # "enable_start") =>
        /\ prompts = 1
        /\ "user_response" \in DOMAIN locals
        /\ IF locals.user_response \in {<<"y">>, <<"Y">>}
           THEN \/ pc = "activate_type" /\ api_calls = <<>>
                \/ api_calls # <<>> /\ api_calls[1].request.operation = "ActivateType"
           ELSE /\ pc = "raised" /\ outcome = "SysExitRecommendedError"
                /\ api_calls = <<>>

\* the answer was Y and ActivateType was called
C19_Witness ==
    /\ Enabling /\ FlagEnabled /\ "include_targets" \notin DOMAIN args
    /\ prompts = 1
    /\ "user_response" \in DOMAIN locals /\ locals.user_response = <<"Y">>
    /\ Len(api_calls) = 1
    /\ api_calls[1].request.operation = "ActivateType"

\* C20: an enable-lambda-function-invoker that succeeded made exactly two
\* requests: ActivateType for AWSSamples::LambdaFunctionInvoker::Hook, then
\* SetTypeConfiguration with TypeArn the Arn that ActivateType answered and
\* Configuration the JSON built from the lambda ARN, the failure mode and the
\* include-targets; the success message is printed only after both succeeded.
C20_ActivateThenConfigure ==
    /\ (Enabling /\ Finished) =>
           /\ Len(api_calls) = 2
           /\ api_calls[1].request.operation = "ActivateType"
           /\ api_calls[1].request.kwargs.TypeName = "AWSSamples::LambdaFunctionInvoker::Hook"
           /\ api_calls[2].request.operation = "SetTypeConfiguration"
           /\ api_calls[2].request.kwargs.TypeArn = api_calls[1].response.Arn
           /\ api_calls[2].request.kwargs.Configuration = build_configuration_json_string(args)
           /\ DOMAIN api_calls[2].request.kwargs = {"TypeArn", "Configuration"}
           /\ Printed("Success")
    /\ (Enabling /\ Printed("Success")) =>
           /\ Finished
           /\ Len(api_calls) = 2
           /\ api_calls[1].error = "None" /\ api_calls[2].error = "None"

\* ActivateType answered arn:hook:2, which is where the configuration with the
\* two target names went
C20_Witness ==
    /\ Enabling /\ Finished /\ Printed("Success")
    /\ api_calls[1].response.Arn = "arn:hook:2"
    /\ api_calls[2].request.kwargs.TypeArn = "arn:hook:2"
    /\ "include_targets" \in DOMAIN args
    /\ args.include_targets = <<"a", ",", " ", "b", "*", " ">>
    /\ api_calls[2].request.kwargs.Configuration.json.CloudFormationConfiguration
           .HookConfiguration.TargetFilters.TargetNames = << <<"a">>, <<"b", "*">> >>
    /\ account.configuration = <<api_calls[2].request.kwargs.Configuration>>

-----------------------------------------------------------------------------
(* Claims C21 to C30.                                                      *)

\* the hook configuration that enable-lambda-function-invoker sent
ConfigurationSent == Enabling /\ Len(api_calls) = 2
HookConfigurationSent ==
    api_calls[2].request.kwargs.Configuration.json.CloudFormationConfiguration.HookConfiguration

\* the positions of the commas of s, with 0 in front and Len(s) + 1 behind
Cuts(s) == {0, Len(s) + 1} \cup {i \in 1..Len(s) : s[i] = ","}
NthCut(s, n) == CHOOSE c \in Cuts(s) : Cardinality({d \in Cuts(s) : d < c}) = n
\* s without the white space at its two ends
Trimmed(s) ==
    LET inked == {i \in 1..Len(s) : s[i] \notin Whitespace}
    IN  IF inked = {} THEN <<>>
        ELSE SubSeq(s, CHOOSE i \in inked : \A j \in inked : i <= j,
                       CHOOSE i \in inked : \A j \in inked : j <= i)
\* what lies between the commas of s, each piece trimmed, in the order of s
CommaSeparated(s) ==
    [n \in 1..(Cardinality(Cuts(s)) - 1) |->
        Trimmed(SubSeq(s, NthCut(s, n - 1) + 1, NthCut(s, n) - 1))]

\* C21 as stated: the hook configuration has TargetStacks ALL, the one lambda
\* ARN as Properties.LambdaFunctions, and the given failure mode or FAIL when
\* none is given; it has TargetFilters if and only if include_targets is given,
\* and then TargetNames is include_targets split at the commas with every piece
\* stripped, Actions is [CREATE, UPDATE] and InvocationPoints is [PRE_PROVISION].
C21_AsClaimed ==
    ConfigurationSent =>
        LET hc == HookConfigurationSent IN
        /\ hc.TargetStacks = "ALL"
        /\ hc.Properties = [LambdaFunctions |-> <<args.lambda_function_arn>>]
        /\ hc.FailureMode = IF "failure_mode" \in DOMAIN args THEN args.failure_mode ELSE "FAIL"
        /\ "TargetFilters" \in DOMAIN hc <=> "include_targets" \in DOMAIN args
        /\ "TargetFilters" \in DOMAIN hc =>
               /\ hc.TargetFilters.TargetNames = CommaSeparated(args.include_targets)
               /\ hc.TargetFilters.Actions = <<"CREATE", "UPDATE">>
               /\ hc.TargetFilters.InvocationPoints = <<"PRE_PROVISION">>

\* C21: the hook configuration has TargetStacks ALL, the one lambda ARN as
\* Properties.LambdaFunctions, and the given failure mode, or FAIL when none or
\* the empty string is given; it has TargetFilters if and only if
\* include_targets is given and is not the empty string, and then TargetNames is
\* include_targets split at the commas with every piece stripped, in the given
\* order, Actions is [CREATE, UPDATE] and InvocationPoints is [PRE_PROVISION].
C21_ConfigurationJson ==
    ConfigurationSent =>
        LET hc == HookConfigurationSent IN
        /\ DOMAIN hc \subseteq {"FailureMode", "TargetStacks", "Properties", "TargetFilters"}
        /\ hc.TargetStacks = "ALL"
        /\ hc.Properties = [LambdaFunctions |-> <<args.lambda_function_arn>>]
        /\ hc.FailureMode = IF "failure_mode" \in DOMAIN args /\ args.failure_mode # ""
                            THEN args.failure_mode ELSE "FAIL"
        /\ "TargetFilters" \in DOMAIN hc <=>
               ("include_targets" \in DOMAIN args /\ args.include_targets # <<>>)
        /\ "TargetFilters" \in DOMAIN hc =>
               /\ hc.TargetFilters.TargetNames = CommaSeparated(args.include_targets)
               /\ hc.TargetFilters.Actions = <<"CREATE", "UPDATE">>
               /\ hc.TargetFilters.InvocationPoints = <<"PRE_PROVISION">>
               /\ DOMAIN hc.TargetFilters = {"TargetNames", "Actions", "InvocationPoints"}

\* `a, b* ` with --failure-mode WARN became the names a and b*
C21_Witness ==
    /\ ConfigurationSent
    /\ "include_targets" \in DOMAIN args /\ args.include_targets = <<"a", ",", " ", "b", "*", " ">>
    /\ "failure_mode" \in DOMAIN args /\ args.failure_mode = "WARN"
    /\ HookConfigurationSent.FailureMode = "WARN"
    /\ HookConfigurationSent.TargetFilters.TargetNames = << <<"a">>, <<"b", "*">> >>

\* C22: the ActivateType request carries TypeName
\* AWSSamples::LambdaFunctionInvoker::Hook, Type HOOK and the fixed PublisherId;
\* it carries ExecutionRoleArn only when an execution role ARN was given and
\* TypeNameAlias only when an alias was given, an option that was not given
\* being left out of the request and not sent as an empty or null value.
C22_OmitsAbsentOptions ==
    (Enabling /\ Len(api_calls) >= 1) =>
        LET kwargs == api_calls[1].request.kwargs IN
        /\ api_calls[1].request.operation = "ActivateType"
        /\ kwargs.TypeName = "AWSSamples::LambdaFunctionInvoker::Hook"
        /\ kwargs.Type = "HOOK"
        /\ kwargs.PublisherId = "096debcd443a84c983955f8f8476c221b2b08d8b"
        /\ "ExecutionRoleArn" \in DOMAIN kwargs <=> "execution_role_arn" \in DOMAIN args
        /\ "TypeNameAlias" \in DOMAIN kwargs <=> "alias" \in DOMAIN args
        /\ \A k \in DOMAIN kwargs : kwargs[k] \notin {"", None}

Configuring == command = "configure"

\* the pieces of a text joined into one string
RECURSIVE Joined(_)
Joined(pieces) == IF pieces = <<>> THEN "" ELSE Joined(SubSeq(pieces, 1, Len(pieces) - 1)) \o pieces[Len(pieces)]

\* a text with every \r that a \n follows left out and every other \r turned
\* into \n
LineEndingsAsNewlines(content) ==
    LET kept == {i \in 1..Len(content) :
                    ~(content[i] = "\r" /\ i < Len(content) /\ content[i + 1] = "\n")}
        nth(n) == CHOOSE i \in kept : Cardinality({j \in kept : j < i}) = n - 1
    IN  [n \in 1..Cardinality(kept) |-> IF content[nth(n)] = "\r" THEN "\n" ELSE content[nth(n)]]

\* configure made one request, for the type of the project, and printed the
\* ConfigurationArn of the answer last
ConfiguredOnce ==
    /\ Len(api_calls) = 1
    /\ api_calls[1].request.operation = "SetTypeConfiguration"
    /\ DOMAIN api_calls[1].request.kwargs = {"TypeName", "Type", "Configuration"}
    /\ api_calls[1].request.kwargs.Type = "HOOK"
    /\ api_calls[1].request.kwargs.TypeName = ProjectTypeName
    /\ Len(stdout) = 1
    /\ stdout[1] = [line |-> "ConfigurationArn", arn |-> api_calls[1].response.ConfigurationArn]

\* C23 as stated: configure with a --configuration-path that does not exist
\* raises InvalidProjectError and never calls SetTypeConfiguration; with an
\* existing file it calls SetTypeConfiguration exactly once with Type HOOK, the
\* type name of the project and the content of the file unchanged as
\* Configuration, then prints the ConfigurationArn of the answer.
C23_AsClaimed ==
    Configuring =>
        /\ (args.configuration_path \notin DOMAIN Files /\ pc # "configure") =>
               pc = "raised" /\ outcome = "InvalidProjectError" /\ api_calls = <<>>
        /\ (args.configuration_path \in DOMAIN Files /\ Finished) =>
               /\ ConfiguredOnce
               /\ api_calls[1].request.kwargs.Configuration = Joined(Files[args.configuration_path])

\* C23: configure with a --configuration-path that does not exist raises
\* InvalidProjectError and never calls SetTypeConfiguration; with an existing
\* file it calls SetTypeConfiguration exactly once with Type HOOK, the type name
\* of the project and, as Configuration, the text of the file with every line
\* ending (\r\n or \r) read as \n, then prints the ConfigurationArn of the
\* answer; with an existing file it never makes more than this one request.
C23_Configure ==
    Configuring =>
        /\ (args.configuration_path \notin DOMAIN Files /\ pc # "configure") =>
               pc = "raised" /\ outcome = "InvalidProjectError" /\ api_calls = <<>> /\ stdout = <<>>
        /\ (args.configuration_path \in DOMAIN Files /\ Finished) =>
               /\ ConfiguredOnce
               /\ api_calls[1].request.kwargs.Configuration =
                      Joined(LineEndingsAsNewlines(Files[args.configuration_path]))
        /\ Len(api_calls) <= 1
        /\ Printed("ConfigurationArn") => Finished

\* the file with \r\n line endings was sent with \n line endings, and the ARN
\* of the answer was printed
C23_Witness ==
    /\ Configuring /\ Finished
    /\ args.configuration_path = "dos.json"
    /\ api_calls[1].request.kwargs.Configuration = "{\n" \o ConfigurationText \o "\n}\n"
    /\ stdout = << [line |-> "ConfigurationArn", arn |-> "arn:configuration"] >>

SettingDefaultVersion == command = "set-default-version"

BlocksInOrder(text, entries) ==
    /\ \A k \in 1..Len(entries) : HasBlock(text, entries[k].handler) <=> entries[k].retained # <<>>
    /\ \A j, k \in 1..Len(entries) :
           (j < k /\ entries[j].retained # <<>> /\ entries[k].retained # <<>>) =>
               BlockStart(text, entries[j].handler) < BlockStart(text, entries[k].handler)

\* C25: the handlers are visited in the order of the schema, the resolver is
\* called exactly once for each recognized handler, with the targetNames list
\* of that handler, and the blocks of the handlers come in the same order; an
\* error raised by the resolver is not caught: the call ends with it and no
\* string is returned.
C25_ResolverOncePerHandler ==
    /\ Len(resolve_calls) <= Len(handlers)
    /\ \A i \in 1..Len(resolve_calls) :
           /\ handlers[i].name \in Recognized
           /\ resolve_calls[i] = handlers[i].targetNames
    /\ pc = "returned" => Len(resolve_calls) = Len(handlers)
    /\ pc # "raised" => Len(total_target_names) = Len(resolve_calls)
    /\ \A k \in 1..Len(total_target_names) : total_target_names[k].handler = handlers[k].name
    /\ BlocksInOrder(compiled_target_handlers_string, total_target_names)
    /\ pc = "returned" => BlocksInOrder(report, total_target_names)
    /\ raised = "ResolverError" =>
           /\ pc = "raised" /\ report = <<>>
           /\ Len(resolve_calls) = Len(total_target_names) + 1
           /\ ~ENABLED VisitHandler /\ ~ENABLED ReturnReport

\* preDelete comes before preCreate in the schema: the resolver was called for
\* preDelete first, and the block of preDelete is above that of preCreate
C25_Witness ==
    /\ pc = "returned"
    /\ Len(handlers) = 2
    /\ handlers[1].name = "preDelete" /\ handlers[2].name = "preCreate"
    /\ resolve_calls = << << <<"a">>, <<"b">> >>, << <<"a", "*">> >> >>
    /\ HasBlock(report, "preDelete") /\ HasBlock(report, "preCreate")
    /\ BlockStart(report, "preDelete") < BlockStart(report, "preCreate")

\* C26: in the extension classes the control-plane call of an invocation is
\* made with the client that this same invocation built from its own
\* arguments, whatever the interleaving of two invocations: the client that one
\* invocation wrote to the class attribute is never the client of the
\* SetTypeConfiguration or SetTypeDefaultVersion call of another.
C26_OwnClient ==
    \A k \in 1..Len(client_calls) :
        LET call == client_calls[k] IN
        /\ call.client = invocations[call.invocation].built
        /\ call.client.built_by = call.invocation
        /\ call.client.region = invocations[call.invocation].args.region

\* C27: whenever enable-lambda-function-invoker sends a type configuration
\* without TargetFilters, the user was asked in that invocation and answered y
\* or Y: no value of --include-targets reaches ActivateType or
\* SetTypeConfiguration with an unfiltered configuration unconfirmed.
C27_UnfilteredIsConfirmed ==
    (ConfigurationSent /\ "TargetFilters" \notin DOMAIN HookConfigurationSent) =>
        /\ prompts = 1
        /\ "user_response" \in DOMAIN locals
        /\ locals.user_response \in {<<"y">>, <<"Y">>}

\* the text and the string that the builder makes of the resolver's lists of
\* the first k handlers under a given configuration
RECURSIVE TextUnder(_, _)
TextUnder(k, configuration) ==
    IF k = 0 THEN <<>>
    ELSE LET e == total_target_names[k]
             kept == Retained(e.resolved, e.handler, configuration).kept
         IN  TextUnder(k - 1, configuration)
                 \o (IF kept = <<>> THEN <<>> ELSE HandlerBlock(e.handler, kept))

StringUnder(configuration) ==
    LET text == TextUnder(Len(total_target_names), configuration)
    IN  IF text = <<>> THEN <<NoTargetsSentinel>> ELSE <<TargetsHeader>> \o text

EmptyTargetFilters == "TargetFilters" :> EmptyDict

\* C28: for every schema and every resolver output, the builder returns for a
\* configuration whose TargetFilters is the empty dict the string it returns
\* for a configuration without the TargetFilters key: every handler keeps each
\* resolved name, no error comes from the filters, and the text is the same.
\* The filtering is compared on the list the resolver returned last, in every
\* run; the strings are compared in the runs with either configuration.
C28_EmptyFiltersAsNoFilters ==
    /\ (pc = "loop" /\ total_target_names # <<>>) =>
           LET e == total_target_names[Len(total_target_names)]
               kept == Retained(e.resolved, e.handler, EmptyTargetFilters)
           IN  /\ kept = Retained(e.resolved, e.handler, EmptyDict)
               /\ kept = [raised |-> "None", kept |-> e.resolved]
    /\ hook_configuration_data = EmptyTargetFilters =>
           /\ raised \in {"None", "ResolverError", "InternalError"}
           /\ \A k \in 1..Len(total_target_names) :
                  total_target_names[k].retained = total_target_names[k].resolved
           /\ pc = "returned" => report = StringUnder(EmptyDict)
    /\ (hook_configuration_data = EmptyDict /\ pc = "returned") =>
           report = StringUnder(EmptyTargetFilters)

\* with TargetFilters {} the report lists the two names the resolver returned
\* for preUpdate
C28_Witness ==
    /\ pc = "returned"
    /\ hook_configuration_data = EmptyTargetFilters
    /\ Len(handlers) = 1 /\ handlers[1].name = "preUpdate"
    /\ total_target_names[1].resolved = << <<"b">>, <<"a">> >>
    /\ report = <<TargetsHeader, "\n\t", "preUpdate", ":\n\t\t", "b", "\n\t\t", "a", "\n">>

\* the hook version whose schema has a preUpdate and a preDelete handler
UpdateDeleteHook == CHOOSE d \in TypeDescriptions : d.Description = "second"

\* C29: for every include-targets string that is not empty, the TargetFilters
\* that _build_configuration_json_string produces make _matches_filters false
\* for every candidate whose Action is DELETE or whose InvocationPoint is
\* POST_PROVISION; so a preDelete handler keeps no name of any resolver output,
\* and the report built for a hook with that configuration has no preDelete
\* block, whatever the schema.
C29_NoDeleteNoPostProvision ==
    (ConfigurationSent /\ TruthyChars(args, "include_targets")) =>
        LET hc == HookConfigurationSent IN
        /\ "TargetFilters" \in DOMAIN hc
        /\ \A c \in Candidates :
               (c.Action = "DELETE" \/ c.InvocationPoint = "POST_PROVISION") =>
                   matches_filters(c, hc.TargetFilters) = Returned(FALSE)
        /\ \A resolved \in ResolverOutputs :
               Retained(resolved, "preDelete", hc) = [raised |-> "None", kept |-> <<>>]
        /\ \A d \in TypeDescriptions :
               LET built == build_target_handlers_string(d, hc)
               IN  built.raised = "None" => ~HasBlock(built.text, "preDelete")

\* --include-targets `a, b* `: the candidate a is accepted for CREATE and
\* rejected for DELETE, and of the hook with a preUpdate and a preDelete
\* handler only the preUpdate block is in the report, though preDelete
\* resolves to a and b
C29_Witness ==
    /\ ConfigurationSent
    /\ "include_targets" \in DOMAIN args /\ args.include_targets = <<"a", ",", " ", "b", "*", " ">>
    /\ matches_filters([TargetName |-> <<"a">>, Action |-> "CREATE", InvocationPoint |-> "PRE_PROVISION"],
                       HookConfigurationSent.TargetFilters) = Returned(TRUE)
    /\ matches_filters([TargetName |-> <<"a">>, Action |-> "DELETE", InvocationPoint |-> "PRE_PROVISION"],
                       HookConfigurationSent.TargetFilters) = Returned(FALSE)
    /\ resolve_type_names(SchemaTargetNames["preDelete"]) = << <<"a">>, <<"b">> >>
    /\ build_target_handlers_string(UpdateDeleteHook, HookConfigurationSent).text =
           <<TargetsHeader, "\n\t", "preUpdate", ":\n\t\t", "b", "\n">>

\* C30: for every pattern p without `*` and `?` and every candidate, name
\* matching gives the same answer in both filter shapes, which is exact string
\* equality: a `Targets` entry with TargetName p and the Action and the
\* InvocationPoint of the candidate matches if and only if the filter
\* {TargetNames: [p]} matches.
C30_SameInBothShapes ==
    (Done /\ OnlyPattern[1] = "one" /\ ~HasWildcardChar(OnlyPattern[2])) =>
        LET p == OnlyPattern[2]
            n == target_handler.TargetName
            with_targets == "Targets" :> << [TargetName |-> p, Action |-> target_handler.Action,
                                            InvocationPoint |-> target_handler.InvocationPoint] >>
            with_target_names == "TargetNames" :> <<p>>
        IN  /\ matched = Returned(n = p)
            /\ matches_filters(target_handler, with_targets)
                   = matches_filters(target_handler, with_target_names)

====
